---- MODULE Spec2Model ----
(***************************************************************************)
(* RevPerfect backend: ingestion of history/forecast files.                *)
(*                                                                         *)
(* The model covers the scheduler's single-flight flag, the ingestion      *)
(* cycle processEmails, the seed upload request POST /hotels/:hotelId/seed *)
(* and the snapshot service (createSnapshotRecord, saveSnapshotData,       *)
(* markSnapshotFailed) on top of a relational store, a blob store and a    *)
(* mailbox.  Every await of the source is one step of a process; the       *)
(* processes (cycles started by triggers, seed upload requests) interleave *)
(* at these steps, as they do on the Node event loop.  A call to an        *)
(* external collaborator either answers or throws; the number of thrown    *)
(* infrastructure errors in one behaviour is bounded by MaxFaults.         *)
(***************************************************************************)
EXTENDS Integers, Sequences, FiniteSets, TLC

(* ------------------------------ bounds --------------------------------- *)
MaxTriggers == 2
MaxSeedUploads == 1
MaxFaults == 2
MaxSeedRace == 2
MaxHistoryRows == 9
MaxTime == 2
\* lines of a file given to the parser on its own
MaxLines == 2

(* ------------------------- program constants --------------------------- *)
\* validateRow: columns.length < 30 (after the first column is dropped)
MinColumns == 30
\* updateSeedActualsWithHistory: .slice(-7)
OverlayRows == 7
\* GET /comparison/:hotelId/stly: the window of 7 days around lastYearDate
StlyWindow == 7

(* ------------------------------ the world ------------------------------ *)
\* Hotel table (prisma/seed.ts creates test hotels; email is unique).
Hotel(id, email, rooms, active) ==
    [id |-> id, email |-> email, totalAvailableRooms |-> rooms, isActive |-> active]

HotelTable ==
    { Hotel("hA", "a@hotel", 120, TRUE),
      Hotel("hB", "b@hotel", 80, TRUE) }

HotelIds == { h.id : h \in HotelTable }

\* The text of one column of a line, by what the parser can make of it:
\* a word, a stay date "DD/MM/YY Day" given by its three numbers, a text that
\* parseFloat reads as the number n, an empty or blank text, and a text that
\* is none of these.
Text(word) == << "text", word >>
DateText(dmy) == << "date", dmy[1], dmy[2], dmy[3] >>
Num(n) == << "num", n >>
Blank == << "blank" >>
Junk == << "junk" >>

\* COLUMN_INDICES: the positions that carry known semantics (column 0 is the
\* first column of the line)
COLUMN_INDICES ==
    [DATA_TYPE |-> 1, STAY_DATE |-> 2, ROOM_NIGHTS |-> 3, ROOM_REVENUE |-> 10, OO_ROOMS |-> 15]

\* One line of a tab-separated file, as line.split('\t') returns it: n columns,
\* a placeholder first, the five columns the parser reads at their positions
\* and blank columns elsewhere.
LineOf(n, type, date, nights, revenue, ooRooms) ==
    [i \in 1..n |->
        CASE i = 1 -> Text("0")
          [] i = COLUMN_INDICES.DATA_TYPE + 1 -> type
          [] i = COLUMN_INDICES.STAY_DATE + 1 -> date
          [] i = COLUMN_INDICES.ROOM_NIGHTS + 1 -> nights
          [] i = COLUMN_INDICES.ROOM_REVENUE + 1 -> revenue
          [] i = COLUMN_INDICES.OO_ROOMS + 1 -> ooRooms
          [] OTHER -> Blank]

\* A line of n columns whose fields are a type word, a stay date and whole
\* numbers of room nights and revenue.
Line(n, type, date, nights, revenue) ==
    LineOf(n, Text(type), DateText(date), Num(nights), Num(revenue), Num(0))

\* File contents known to the model, by an identifier of their bytes.
\*   1: two well-formed lines and one short line
\*   2: two lines with the same stay date and type (a source-file defect)
\*   3: one well-formed line
FileLines(bytes) ==
    CASE bytes = 1 -> << Line(31, "History", <<1, 11, 25>>, 45, 12500),
                         Line(7, "Forecast", <<2, 11, 25>>, 10, 2000),
                         Line(31, "Forecast", <<2, 11, 25>>, 30, 6000) >>
      [] bytes = 2 -> << Line(31, "Forecast", <<3, 11, 25>>, 38, 9500),
                         Line(31, "Forecast", <<3, 11, 25>>, 40, 9900) >>
      [] OTHER     -> << Line(31, "History", <<1, 11, 25>>, 40, 10000) >>

Attachment(name, bytes) == [name |-> name, contentBytes |-> bytes]

Mail(id, sender, atts) == [messageId |-> id, sender |-> sender, atts |-> atts]

\* The mailbox: the messages with attachments, in the order the mail API lists them.
Mailbox ==
    << Mail("m1", "a@hotel", << Attachment("a.txt", 1), Attachment("b.txt", 3) >>),
       Mail("m2", "b@hotel", << Attachment("c.txt", 1), Attachment("d.txt", 2) >>) >>

\* Messages the cycle has nothing to store for: m0 is recorded as processed
\* (and was set to unread again in the mail folder), m3 comes from a sender no
\* hotel has, m4 from the inactive hotel, m5 has no attachment and the one
\* attachment of m6 is no .txt file.
SkippedMail ==
    << Mail("m0", "a@hotel", << Attachment("e.txt", 3) >>),
       Mail("m3", "x@nowhere", << Attachment("f.txt", 3) >>),
       Mail("m4", "c@hotel", << Attachment("g.txt", 3) >>),
       Mail("m5", "a@hotel", << >>),
       Mail("m6", "b@hotel", << Attachment("notes.pdf", 3) >>) >>

\* every message of the mail folder, read or unread
Inbox == Mailbox \o SkippedMail

\* a hotel that was deactivated: no request of the model addresses it
ClosedHotels == { Hotel("hC", "c@hotel", 60, FALSE) }

MailById(id) == CHOOSE m \in { Inbox[i] : i \in 1..Len(Inbox) } : m.messageId = id

\* Files a seed upload request may carry.
SeedFiles == { Attachment("seed.txt", 3), Attachment("seed2.txt", 1) }

(* ------------------------------ helpers -------------------------------- *)
\* Fault variant: the filter on the file name is missing.
IsAnyFile(name) == TRUE

\* attachment.name.toLowerCase().endsWith('.txt'), over the names of the model
IsTxt(name) ==
    name \in { "a.txt", "b.txt", "c.txt", "d.txt", "e.txt", "f.txt", "g.txt", "seed.txt", "seed2.txt" }

\* calculateFileHash: SHA-256 of the bytes; equal bytes give equal digests and
\* the digests of the model's distinct contents are distinct.
calculateFileHash(bytes) == << "sha256", bytes >>

(* ------------------------------ the parser ----------------------------- *)
NullRow == [dataType |-> "NULL"]

IsLeapYear(y) == (y % 4 = 0 /\ y % 100 # 0) \/ y % 400 = 0

DaysInMonth(y, m) ==
    IF m = 2 THEN (IF IsLeapYear(y) THEN 29 ELSE 28)
    ELSE IF m \in {4, 6, 9, 11} THEN 30 ELSE 31

\* Fault variant: the components are checked against their ranges only, the
\* date built from them is not compared with them.
componentsInRange(dmy) ==
    /\ dmy[1] # 0 /\ dmy[2] # 0 /\ dmy[3] # 0
    /\ dmy[1] >= 1 /\ dmy[1] <= 31
    /\ dmy[2] >= 1 /\ dmy[2] <= 12

\* parseStayDate accepts: no component is 0 (!day || !month || !year), day in
\* 1..31, month in 1..12 and new Date(2000 + year, month - 1, day) keeps day
\* and month.
StayDateAccepted(dmy) ==
    /\ dmy[1] # 0 /\ dmy[2] # 0 /\ dmy[3] # 0
    /\ dmy[1] >= 1 /\ dmy[1] <= 31
    /\ dmy[2] >= 1 /\ dmy[2] <= 12
    /\ dmy[1] <= DaysInMonth(2000 + dmy[3], dmy[2])

\* The calendar date parseStayDate returns, as <<year, month, day>>.
parseStayDate(dmy) == << 2000 + dmy[3], dmy[2], dmy[1] >>

\* dateStr.split(' ')[0].split('/').map(Number): day, month and year of a
\* column; a text that is no date gives NaN, for which !day holds as for 0
DateParts(column) ==
    IF column[1] = "date" THEN << column[2], column[3], column[4] >> ELSE << 0, 0, 0 >>

parseDataType(type) == IF type \in {"History", "HISTORY", "history"} THEN "HISTORY" ELSE "FORECAST"

\* the word of a column, '' when it holds none
WordOf(column) == IF column[1] = "text" THEN column[2] ELSE ""

\* parseNumericValue: parseFloat of the cleaned text, 0 when it is no number
parseNumericValue(column) == IF column[1] = "num" THEN column[2] ELSE 0

\* calculateOccupancyPercent: (roomNights / totalAvailableRooms) * 100, as a
\* fraction << numerator, denominator >>
calculateOccupancyPercent(roomNights, totalAvailableRooms) ==
    IF totalAvailableRooms = 0 THEN << 0, 1 >> ELSE << 100 * roomNights, totalAvailableRooms >>

\* calculateADR: roomRevenue / roomNights, as a fraction
calculateADR(roomRevenue, roomNights) ==
    IF roomNights = 0 THEN << 0, 1 >> ELSE << roomRevenue, roomNights >>

\* calculateRevPAR: roomRevenue / totalAvailableRooms, as a fraction
calculateRevPAR(roomRevenue, totalAvailableRooms) ==
    IF totalAvailableRooms = 0 THEN << 0, 1 >> ELSE << roomRevenue, totalAvailableRooms >>

\* Fault variant: the first column is kept and counted.
keepFirst(allColumns) == allColumns

\* allColumns.slice(1): the columns after the first
dropFirst(allColumns) == SubSeq(allColumns, 2, Len(allColumns))

\* validateRow on the columns that remain after the first one is dropped:
\* enough columns, and data type, stay date and room nights not empty.
validateRow(columns) ==
    /\ Len(columns) >= MinColumns
    /\ columns[COLUMN_INDICES.DATA_TYPE] # Blank
    /\ columns[COLUMN_INDICES.STAY_DATE] # Blank
    /\ columns[COLUMN_INDICES.ROOM_NIGHTS] # Blank

\* parseLine: a row, or NullRow when the line is rejected (validateRow fails,
\* or parseStayDate throws and the catch returns null).
parseLine(line, rowIndex, totalAvailableRooms) ==
    LET columns == dropFirst(line)
        roomNights == parseNumericValue(columns[COLUMN_INDICES.ROOM_NIGHTS])
        roomRevenue == parseNumericValue(columns[COLUMN_INDICES.ROOM_REVENUE])
    IN  IF validateRow(columns) /\ StayDateAccepted(DateParts(columns[COLUMN_INDICES.STAY_DATE]))
        THEN [dataType |-> parseDataType(WordOf(columns[COLUMN_INDICES.DATA_TYPE])),
              stayDate |-> parseStayDate(DateParts(columns[COLUMN_INDICES.STAY_DATE])),
              roomNights |-> roomNights,
              roomRevenue |-> roomRevenue,
              ooRooms |-> parseNumericValue(columns[COLUMN_INDICES.OO_ROOMS]),
              occupancyPercent |-> calculateOccupancyPercent(roomNights, totalAvailableRooms),
              adr |-> calculateADR(roomRevenue, roomNights),
              revPAR |-> calculateRevPAR(roomRevenue, totalAvailableRooms),
              rowIndex |-> rowIndex]
        ELSE NullRow

\* Fault variant: the loop over the lines ends at the first rejected line.
parseUntilRejected(lines, totalAvailableRooms) ==
    LET parsed == [i \in 1..Len(lines) |-> parseLine(lines[i], i - 1, totalAvailableRooms)]
        stop == { i \in 1..Len(lines) : parsed[i] = NullRow }
    IN  IF stop = {} THEN parsed
        ELSE SubSeq(parsed, 1, (CHOOSE i \in stop : \A j \in stop : i <= j) - 1)

\* the loop of parseHistoryForecastFile over the lines: the rows of the
\* accepted lines, in line order; rowIndex is the 0-based index of the line.
parseLines(lines, totalAvailableRooms) ==
    LET parsed == [i \in 1..Len(lines) |-> parseLine(lines[i], i - 1, totalAvailableRooms)]
    IN  SelectSeq(parsed, LAMBDA r : r # NullRow)

\* parseHistoryForecastFile on the bytes of a file
parseHistoryForecastFile(bytes, totalAvailableRooms) ==
    parseLines(FileLines(bytes), totalAvailableRooms)

(* --------------------------- the relational store ---------------------- *)
NoError == << >>

\* Fault variant: the lookup ignores snapshots that did not complete.
checkDuplicateCompletedOnly(snaps, fileHash) ==
    { s \in DOMAIN snaps : snaps[s].fileHash = fileHash /\ snaps[s].processingStatus = "COMPLETED" }

\* prisma.historyForecastSnapshot.findUnique({ where: { fileHash } })
checkDuplicateByHash(snaps, fileHash) ==
    { s \in DOMAIN snaps : snaps[s].fileHash = fileHash }

\* Fault variant: the column has no unique index.
NoUniqueIndex(snaps, fileHash) == TRUE

\* The unique index on fileHash: a create with a hash that is already stored
\* is refused by the store.
FileHashFree(snaps, fileHash) == checkDuplicateByHash(snaps, fileHash) = {}

\* Ids are generated by the store (uuid); a fresh one is never an existing
\* one: the id names the process that asked for it and the file it is for.
NewSnapshotId(p, filename) == << p[1], p[2], filename >>

\* createSnapshotRecord: the stored record.
NewSnapshot(hotelId, filename, blobUrl, fileHash, rooms, isSeed) ==
    [hotelId |-> hotelId,
     originalFilename |-> filename,
     blobUrl |-> blobUrl,
     fileHash |-> fileHash,
     totalAvailableRoomsSnapshot |-> rooms,
     isSeedSnapshot |-> isSeed,
     processed |-> FALSE,
     processingStatus |-> "PENDING",
     processingError |-> NoError,
     rowCount |-> 0]

createSnapshotRecord(snaps, id, rec) ==
    [s \in DOMAIN snaps \cup {id} |->
        IF s \in DOMAIN snaps THEN snaps[s] ELSE rec]

\* Fault variant: the update stores the status and drops the error text.
markFailedWithoutText(snaps, id, error) ==
    [snaps EXCEPT ![id].processingStatus = "FAILED"]

\* Fault variant: the failed snapshot is deleted instead of marked.
deleteSnapshot(snaps, id, error) == [s \in DOMAIN snaps \ {id} |-> snaps[s]]

\* Fault variant: the update that marks the failure also sets processed.
markSnapshotFailedProcessed(snaps, id, error) ==
    [snaps EXCEPT ![id].processingStatus = "FAILED", ![id].processingError = error,
                  ![id].processed = TRUE]

\* markSnapshotFailed: the update of the snapshot table.
markSnapshotFailed(snaps, id, error) ==
    [snaps EXCEPT ![id].processingStatus = "FAILED", ![id].processingError = error]

\* Fault variant: the snapshot's id is written into the hotel id of the rows.
DataRecordsIdTwice(rows, snapshotId, hotelId) ==
    [i \in 1..Len(rows) |->
        [snapshotId |-> snapshotId, hotelId |-> snapshotId,
         stayDate |-> rows[i].stayDate, dataType |-> rows[i].dataType,
         roomNights |-> rows[i].roomNights, roomRevenue |-> rows[i].roomRevenue,
         rowIndex |-> rows[i].rowIndex]]

\* dataRecords of saveSnapshotData: the parsed rows with the snapshot's id and
\* the hotel id read from the snapshot.
DataRecords(rows, snapshotId, hotelId) ==
    [i \in 1..Len(rows) |->
        [snapshotId |-> snapshotId, hotelId |-> hotelId,
         stayDate |-> rows[i].stayDate, dataType |-> rows[i].dataType,
         roomNights |-> rows[i].roomNights, roomRevenue |-> rows[i].roomRevenue,
         rowIndex |-> rows[i].rowIndex]]

\* Fault variant: createMany with no unique constraint on the rows' keys.
KeysUnchecked(recs) == TRUE

\* UNIQUE (snapshotId, stayDate, dataType): createMany is refused when two of
\* its records share the key.
KeysDistinct(recs) ==
    \A i, j \in 1..Len(recs) :
        (recs[i].stayDate = recs[j].stayDate /\ recs[i].dataType = recs[j].dataType) => i = j

(* ------------------------------ the state ------------------------------ *)
VARIABLES
    isRunning,        \* scheduler.ts: the job lock
    proc,             \* the locals and the position of every cycle and seed request
    snapshots,        \* table history_forecast_snapshots, by id
    dataRows,         \* table history_forecast_data, by snapshot id, in insertion order
    processedEmails,  \* table processed_emails
    blobs,            \* the blob container
    unread,           \* message ids the mail API reports as unread
    faults,           \* infrastructure errors thrown so far
    outageLost,       \* history: attachments whose phase 1 or 2 met an unavailable store
    unmarked          \* history: snapshots for which every markSnapshotFailed update so far threw

vars == << isRunning, proc, snapshots, dataRows, processedEmails, blobs, unread, faults, outageLost, unmarked >>

Cycles == { << "cycle", k >> : k \in 1..MaxTriggers }
SeedRequests == { << "seed", j >> : j \in 1..MaxSeedUploads }
Procs == Cycles \cup SeedRequests
IsCycle(p) == p[1] = "cycle"

NoHotel == Hotel("", "", 0, FALSE)
NoFile == Attachment("", 0)
NoTx == [open |-> FALSE, status |-> "", rows |-> << >>]

ZeroSummary ==
    [totalEmails |-> 0, processedEmails |-> 0, skippedEmails |-> 0,
     snapshotsCreated |-> 0, errors |-> 0, errorDetails |-> << >>]

Idle ==
    [pc |-> "idle", hotel |-> NoHotel, file |-> NoFile, fileHash |-> << >>,
     blobUrl |-> << >>, snap |-> << >>, rows |-> << >>, tx |-> NoTx, err |-> "",
     emails |-> << >>, mi |-> 0, atts |-> << >>, ai |-> 0,
     summary |-> ZeroSummary, status |-> 0, faulted |-> FALSE, threwAt |-> "",
     failures |-> 0]

Init ==
    /\ isRunning = FALSE
    /\ proc = [p \in Procs |-> Idle]
    /\ snapshots = << >>
    /\ dataRows = << >>
    /\ processedEmails = {}
    /\ blobs = {}
    /\ unread = { Mailbox[i].messageId : i \in 1..Len(Mailbox) }
    /\ faults = 0
    /\ outageLost = {}
    /\ unmarked = {}

(* --------------------------- infrastructure ---------------------------- *)
\* A call to the store, the blob container or the mail API answers ...
Answers == faults' = faults
\* ... or throws.
Throws == faults < MaxFaults /\ faults' = faults + 1

Unavailable == "store unavailable"
UniqueViolation == "Unique constraint failed"
NotFound == "Snapshot not found"

Set(p, l) == proc' = [proc EXCEPT ![p] = l]

\* history: the attachment a cycle lost to an unavailable store
Lost(p, l) == [fileHash |-> l.fileHash, cycle |-> p[2]]

\* a thrown infrastructure error, recorded on the process that met it
Faulted(l) == [l EXCEPT !.faulted = TRUE, !.threwAt = l.pc]

(* ----------------------- processEmails: the loops ---------------------- *)
ClearAttachment(l) ==
    [l EXCEPT !.file = NoFile, !.fileHash = << >>, !.blobUrl = << >>, !.snap = << >>,
              !.rows = << >>, !.tx = NoTx, !.err = ""]

\* for (const email of emails): the next mail item, or the summary
NextMail(l) ==
    IF l.mi < Len(l.emails)
    THEN [ClearAttachment(l) EXCEPT !.pc = "isProcessed", !.mi = l.mi + 1,
                                    !.hotel = NoHotel, !.atts = << >>, !.ai = 0]
    ELSE [ClearAttachment(l) EXCEPT !.pc = "return", !.hotel = NoHotel]

\* for (const attachment of attachments): the next attachment, or the next mail
NextAttachment(l) ==
    IF l.ai < Len(l.atts)
    THEN [ClearAttachment(l) EXCEPT !.pc = "checkHash", !.ai = l.ai + 1,
                                    !.file = l.atts[l.ai + 1]]
    ELSE NextMail(l)

\* Fault variant: the error is counted and its message is not kept.
countWithoutDetail(l, label, msg) == [l EXCEPT !.summary.errors = @ + 1]

CountError(l, label, msg) ==
    [l EXCEPT !.summary.errors = @ + 1,
              !.summary.errorDetails = Append(@, << label, msg >>)]

\* history: one more failure met by the cycle
Failure(l) == [l EXCEPT !.failures = @ + 1]

\* Fault variant: the inner try encloses the whole attachment body, so every
\* attachment error reaches the catch that calls markSnapshotFailed.
innerTryCatch(l, msg) == [l EXCEPT !.pc = "markOuter", !.err = msg]

\* Fault variant: the catch is around the attachment loop, so an attachment
\* error ends the mail item.
catchAbortsMail(l, msg) == NextMail(CountError(l, l.file.name, msg))

\* catch (attachmentError): count, continue with the next attachment
attachmentCatch(l, msg) == NextAttachment(CountError(l, l.file.name, msg))

\* catch (emailError): count, continue with the next email
emailCatch(l, msg) == NextMail(CountError(l, l.emails[l.mi], msg))

\* skippedEmails++; continue
skipEmail(l) == NextMail([l EXCEPT !.summary.skippedEmails = @ + 1])

(* ------------------------------ scheduler ------------------------------ *)
\* Fault variant: the flag is not tested.
TriggerNeverSkips(running) == FALSE

\* if (isRunning) { ...skipping...; return; }
TriggerSkips(running) == running

\* The cron callback and runJobNow: the k-th trigger of the behaviour.  The
\* test of the flag and its assignment are not separated by an await.
Trigger(k) ==
    LET p == << "cycle", k >> IN
    /\ proc[p].pc = "idle"
    /\ \A j \in 1..(k - 1) : proc[<< "cycle", j >>].pc # "idle"
    /\ IF TriggerSkips(isRunning)
       THEN /\ Set(p, [proc[p] EXCEPT !.pc = "skipped"])
            /\ UNCHANGED isRunning
       ELSE /\ isRunning' = TRUE
            /\ Set(p, [proc[p] EXCEPT !.pc = "fetch"])
    /\ UNCHANGED << snapshots, dataRows, processedEmails, blobs, unread, faults, outageLost, unmarked >>

\* Fault variant: the flag is cleared after the await inside the try, so a
\* throw of processEmails leaves it set.
runningAfterThrow(l) == l.threwAt = "fetch"

\* finally { isRunning = false; }: the flag after processEmails has ended
runningAfter(l) == FALSE

\* processEmails has returned or thrown: finally { isRunning = false; }
\* The callback drops the summary it is given.
CycleEnds(p) ==
    /\ IsCycle(p)
    /\ proc[p].pc = "return"
    /\ isRunning' = runningAfter(proc[p])
    /\ Set(p, [Idle EXCEPT !.pc = "done", !.faulted = proc[p].faulted])
    /\ UNCHANGED << snapshots, dataRows, processedEmails, blobs, unread, faults, outageLost, unmarked >>

(* ------------------ processEmails: the steps of a cycle ---------------- *)
\* Fault variant: the filter on isRead is missing from the query.
getAllEmails(unreadIds) == [i \in 1..Len(Inbox) |-> Inbox[i].messageId]

\* emailService.getNewEmails(): the unread messages with attachments
getNewEmails(unreadIds) ==
    LET listed == SelectSeq(Inbox, LAMBDA m : m.messageId \in unreadIds)
    IN  [i \in 1..Len(listed) |-> listed[i].messageId]

\* Step 1: fetch new emails
Fetch(p) ==
    LET l == proc[p] IN
    /\ IsCycle(p)
    /\ l.pc = "fetch"
    /\ \/ /\ Answers
          /\ LET emails == getNewEmails(unread)
                 l1 == [l EXCEPT !.emails = emails, !.summary.totalEmails = Len(emails)]
             IN  IF Len(emails) = 0
                 THEN Set(p, [l1 EXCEPT !.pc = "return"])
                 ELSE Set(p, [l1 EXCEPT !.pc = "isProcessed", !.mi = 1])
       \/ /\ Throws
          \* the outer catch: summary.errors++; throw error
          /\ Set(p, [Failure(Faulted(CountError(l, "fatal", Unavailable))) EXCEPT !.pc = "return"])
    /\ UNCHANGED << isRunning, snapshots, dataRows, processedEmails, blobs, unread, outageLost, unmarked >>

\* processedEmailService.isEmailProcessed(email.messageId)
isEmailProcessed(records, messageId) == \E r \in records : r.messageId = messageId

IsProcessed(p) ==
    LET l == proc[p] IN
    /\ IsCycle(p)
    /\ l.pc = "isProcessed"
    /\ \/ /\ Answers
          /\ IF isEmailProcessed(processedEmails, l.emails[l.mi])
             THEN Set(p, skipEmail(l))
             ELSE Set(p, [l EXCEPT !.pc = "getAttachments"])
       \/ /\ Throws
          /\ Set(p, emailCatch(Failure(Faulted(l)), Unavailable))
    /\ UNCHANGED << isRunning, snapshots, dataRows, processedEmails, blobs, unread, outageLost, unmarked >>

\* hotelService.getHotelByEmail(email.sender)
getHotelByEmail(email) == { h \in HotelTable \cup ClosedHotels : h.email = email }

\* The hotel is identified and emailService.getAttachments(email.messageId) is
\* called: two awaits that read what no process of the model writes (the hotel
\* table, the message), taken as one step.
GetAttachments(p) ==
    LET l == proc[p]
        found == getHotelByEmail(MailById(l.emails[l.mi]).sender)
        atts == MailById(l.emails[l.mi]).atts
    IN
    /\ IsCycle(p)
    /\ l.pc = "getAttachments"
    /\ \/ /\ Answers
          /\ IF found = {} \/ (\E h \in found : ~h.isActive) \/ Len(atts) = 0
             THEN Set(p, skipEmail(l))
             ELSE Set(p, [l EXCEPT !.pc = "checkHash", !.hotel = CHOOSE h \in found : TRUE,
                                   !.atts = atts, !.ai = 1, !.file = atts[1]])
       \/ /\ Throws
          /\ Set(p, emailCatch(Failure(Faulted(l)), Unavailable))
    /\ UNCHANGED << isRunning, snapshots, dataRows, processedEmails, blobs, unread, outageLost, unmarked >>

\* Fault variant: checkDuplicateByHash catches the error of its query and
\* returns null, so the attachment is taken for new.
hashCheckFailsOpen(l) ==
    [Faulted(l) EXCEPT !.pc = "upload", !.fileHash = calculateFileHash(l.file.contentBytes)]

\* checkDuplicateByHash: catch (error) { ...; throw error }: the error of the
\* query reaches the catch of the attachment.
hashCheckThrows(l) == attachmentCatch(Failure(Faulted(l)), Unavailable)

\* the .txt filter, calculateFileHash and snapshotService.checkDuplicateByHash
CheckHash(p) ==
    LET l == proc[p]
        fileHash == calculateFileHash(l.file.contentBytes)
    IN
    /\ IsCycle(p)
    /\ l.pc = "checkHash"
    /\ IF ~IsTxt(l.file.name)
       THEN Answers /\ Set(p, NextAttachment(l))
       ELSE \/ /\ Answers
               /\ IF checkDuplicateByHash(snapshots, fileHash) # {}
                  THEN Set(p, NextAttachment(l))
                  ELSE Set(p, [l EXCEPT !.pc = "upload", !.fileHash = fileHash])
            \/ /\ Throws
               /\ Set(p, hashCheckThrows(l))
    /\ UNCHANGED << isRunning, snapshots, dataRows, processedEmails, blobs, unread, outageLost, unmarked >>

\* blobStorageService.uploadFile(hotel.id, attachment.name, attachment.contentBytes)
uploadFile(container, url, hotelId, filename, bytes) ==
    container \cup { [url |-> url, hotelId |-> hotelId, originalFilename |-> filename, bytes |-> bytes] }

\* The blob name is made of the hotel id, the time of the upload and the file
\* name: the time is told by the process that uploads.
BlobUrl(p, hotelId, filename) == << hotelId, p[1], p[2], filename >>

Upload(p) ==
    LET l == proc[p] IN
    /\ IsCycle(p)
    /\ l.pc = "upload"
    /\ \/ /\ Answers
          /\ blobs' = uploadFile(blobs, BlobUrl(p, l.hotel.id, l.file.name),
                                  l.hotel.id, l.file.name, l.file.contentBytes)
          /\ Set(p, [l EXCEPT !.pc = "markAsProcessed", !.blobUrl = BlobUrl(p, l.hotel.id, l.file.name)])
       \/ /\ Throws
          /\ UNCHANGED blobs
          /\ Set(p, attachmentCatch(Failure(Faulted(l)), Unavailable))
    /\ UNCHANGED << isRunning, snapshots, dataRows, processedEmails, unread, outageLost, unmarked >>

\* emailService.markAsProcessed(email.messageId): isRead = true
MarkAsProcessed(p) ==
    LET l == proc[p] IN
    /\ IsCycle(p)
    /\ l.pc = "markAsProcessed"
    /\ \/ /\ Answers
          /\ unread' = unread \ { l.emails[l.mi] }
          /\ Set(p, [l EXCEPT !.pc = "create"])
       \/ /\ Throws
          /\ UNCHANGED unread
          /\ Set(p, attachmentCatch(Failure(Faulted(l)), Unavailable))
    /\ UNCHANGED << isRunning, snapshots, dataRows, processedEmails, blobs, outageLost, unmarked >>

\* Phase 1: snapshotService.createSnapshotRecord, then (no await between) the
\* file is parsed and saveSnapshotData is entered.
Create(p) ==
    LET l == proc[p]
        rec == NewSnapshot(l.hotel.id, l.file.name, l.blobUrl, l.fileHash,
                           l.hotel.totalAvailableRooms, FALSE)
    IN
    /\ IsCycle(p)
    /\ l.pc = "create"
    /\ \/ /\ Answers
          /\ FileHashFree(snapshots, l.fileHash)
          /\ snapshots' = createSnapshotRecord(snapshots, NewSnapshotId(p, l.file.name), rec)
          /\ dataRows' = [s \in DOMAIN snapshots' |-> IF s \in DOMAIN dataRows THEN dataRows[s] ELSE << >>]
          /\ Set(p, [l EXCEPT !.pc = "save", !.snap = NewSnapshotId(p, l.file.name),
                              !.rows = parseHistoryForecastFile(l.file.contentBytes,
                                                                l.hotel.totalAvailableRooms)])
          /\ UNCHANGED << outageLost, unmarked >>
       \/ /\ Answers
          /\ ~FileHashFree(snapshots, l.fileHash)
          /\ UNCHANGED << snapshots, dataRows, outageLost, unmarked >>
          /\ Set(p, attachmentCatch(Failure(l), UniqueViolation))
       \/ /\ Throws
          /\ UNCHANGED << snapshots, dataRows >>
          /\ outageLost' = outageLost \cup { Lost(p, l) }
          /\ UNCHANGED unmarked
          /\ Set(p, attachmentCatch(Failure(Faulted(l)), Unavailable))
    /\ UNCHANGED << isRunning, processedEmails, blobs, unread >>

\* Fault variant: a snapshot that is not found counts as one of no hotel.
hotelOfAnyId(snaps, id) == IF id \in DOMAIN snaps THEN { snaps[id].hotelId } ELSE { "" }

\* findUnique({ where: { id: snapshotId }, select: { hotelId: true } }): the
\* hotel ids found, none when there is no such snapshot
snapshotHotel(snaps, id) == IF id \in DOMAIN snaps THEN { snaps[id].hotelId } ELSE {}

(* ------------------- saveSnapshotData (Phase 2) ------------------------ *)
\* Writes made through the transaction client tx are held back until the
\* transaction commits: the committed tables, as every other process reads
\* them, while the transaction is open.
txUpdateStatus(snaps, id, status) == snaps

\* Fault variant: createMany goes through prisma, not through tx.
createManyOutsideTx(table, id, recs) == [table EXCEPT ![id] = @ \o recs]

txCreateMany(table, id, recs) == table

\* the commit of prisma.$transaction: the held-back writes take effect together
commitSnapshot(snaps, id, tx) ==
    [snaps EXCEPT ![id].processed = TRUE,
                  ![id].processingStatus = tx.status,
                  ![id].rowCount = Len(tx.rows)]

\* Fault variant: the transaction empties the row table before it inserts.
replaceRows(table, id, tx) == [s \in DOMAIN table |-> IF s = id THEN tx.rows ELSE << >>]

commitRows(table, id, tx) == [table EXCEPT ![id] = @ \o tx.rows]

\* the caller's code after saveSnapshotData has returned
afterSave(p, l) ==
    IF IsCycle(p)
    THEN [l EXCEPT !.pc = "record", !.summary.snapshotsCreated = @ + 1]
    ELSE [ClearAttachment(l) EXCEPT !.pc = "done", !.status = 200, !.hotel = NoHotel]

\* the caller's code after saveSnapshotData has thrown
afterSaveThrows(p, l) ==
    IF IsCycle(p)
    THEN [l EXCEPT !.pc = "markOuter", !.tx = NoTx]
    ELSE [ClearAttachment(l) EXCEPT !.pc = "done", !.status = 500, !.hotel = NoHotel]

\* the transaction unwinds and control reaches the catch of saveSnapshotData
toCatch(p, l, msg) ==
    LET l1 == [l EXCEPT !.pc = "markInner", !.tx = NoTx, !.err = msg]
    IN  IF IsCycle(p) THEN Failure(l1) ELSE l1

\* findUnique({ where: { id: snapshotId } }), then inside the transaction
\* tx.historyForecastSnapshot.update (processingStatus 'PROCESSING') and
\* tx.historyForecastData.createMany: the read is of the caller's own snapshot
\* and the two writes are held back, so the three awaits are taken as one step.
TxWrites(p) ==
    LET l == proc[p]
        found == snapshotHotel(snapshots, l.snap)
        recs == DataRecords(l.rows, l.snap, CHOOSE h \in found : TRUE)
    IN
    /\ l.pc = "save"
    /\ \/ /\ Answers
          /\ found # {}
          /\ KeysDistinct(recs)
          /\ snapshots' = txUpdateStatus(snapshots, l.snap, "PROCESSING")
          /\ dataRows' = txCreateMany(dataRows, l.snap, recs)
          /\ Set(p, [l EXCEPT !.pc = "commit",
                              !.tx = [open |-> TRUE, status |-> "PROCESSING", rows |-> recs]])
       \/ /\ Answers
          /\ found = {}
          /\ UNCHANGED << snapshots, dataRows >>
          /\ Set(p, toCatch(p, l, NotFound))
       \/ /\ Answers
          /\ found # {}
          /\ ~KeysDistinct(recs)
          /\ UNCHANGED << snapshots, dataRows >>
          /\ Set(p, toCatch(p, l, UniqueViolation))
       \/ /\ Throws
          /\ UNCHANGED << snapshots, dataRows >>
          /\ Set(p, toCatch(p, Faulted(l), Unavailable))
    /\ UNCHANGED << isRunning, processedEmails, blobs, unread, outageLost, unmarked >>

\* tx.historyForecastSnapshot.update: processed, 'COMPLETED', rowCount; commit
TxCommit(p) ==
    LET l == proc[p]
        tx == [l.tx EXCEPT !.status = "COMPLETED"]
    IN
    /\ l.pc = "commit"
    /\ \/ /\ Answers
          /\ snapshots' = commitSnapshot(snapshots, l.snap, tx)
          /\ dataRows' = commitRows(dataRows, l.snap, tx)
          /\ Set(p, afterSave(p, [l EXCEPT !.tx = NoTx]))
       \/ /\ Throws
          /\ UNCHANGED << snapshots, dataRows >>
          /\ Set(p, toCatch(p, Faulted(l), Unavailable))
    /\ UNCHANGED << isRunning, processedEmails, blobs, unread, outageLost, unmarked >>

\* the error text saveSnapshotData stores: message and stack
WithStack(msg) == << msg, "Stack" >>

\* catch of saveSnapshotData: await this.markSnapshotFailed(...); throw error.
\* markSnapshotFailed catches and logs an error of its own update.
MarkInner(p) ==
    LET l == proc[p] IN
    /\ l.pc = "markInner"
    /\ \/ /\ Answers
          /\ l.snap \in DOMAIN snapshots
          /\ snapshots' = markSnapshotFailed(snapshots, l.snap, WithStack(l.err))
          /\ unmarked' = unmarked \ { l.snap }
          /\ Set(p, afterSaveThrows(p, l))
       \/ /\ Answers
          /\ l.snap \notin DOMAIN snapshots
          /\ UNCHANGED << snapshots, unmarked >>
          /\ Set(p, afterSaveThrows(p, l))
       \/ /\ Throws
          /\ UNCHANGED snapshots
          /\ unmarked' = unmarked \cup { l.snap }
          /\ Set(p, afterSaveThrows(p, Faulted(l)))
    /\ UNCHANGED << isRunning, dataRows, processedEmails, blobs, unread, outageLost >>

(* --------------- processEmails: after saveSnapshotData ----------------- *)
\* catch (parseError): markSnapshotFailed(snapshot.id, errorMsg); errors++; continue
parseCatch(l) == NextAttachment(CountError(l, l.file.name, l.err))

MarkOuter(p) ==
    LET l == proc[p] IN
    /\ IsCycle(p)
    /\ l.pc = "markOuter"
    /\ \/ /\ Answers
          /\ l.snap \in DOMAIN snapshots
          /\ snapshots' = markSnapshotFailed(snapshots, l.snap, << l.err >>)
          /\ unmarked' = unmarked \ { l.snap }
          /\ Set(p, parseCatch(l))
       \/ /\ Answers
          /\ l.snap \notin DOMAIN snapshots
          /\ UNCHANGED << snapshots, unmarked >>
          /\ Set(p, parseCatch(l))
       \/ /\ Throws
          /\ UNCHANGED << snapshots, unmarked >>
          /\ Set(p, parseCatch(Faulted(l)))
    /\ outageLost' = IF l.err = Unavailable THEN outageLost \cup { Lost(p, l) } ELSE outageLost
    /\ UNCHANGED << isRunning, dataRows, processedEmails, blobs, unread >>

\* processedEmailService.recordProcessedEmail: messageId is unique
recordProcessedEmail(records, messageId, fileHash) ==
    records \cup { [messageId |-> messageId, fileHash |-> fileHash] }

Record(p) ==
    LET l == proc[p] IN
    /\ IsCycle(p)
    /\ l.pc = "record"
    /\ \/ /\ Answers
          /\ ~isEmailProcessed(processedEmails, l.emails[l.mi])
          /\ processedEmails' = recordProcessedEmail(processedEmails, l.emails[l.mi], l.fileHash)
          /\ Set(p, NextAttachment([l EXCEPT !.summary.processedEmails = @ + 1]))
       \/ /\ Answers
          /\ isEmailProcessed(processedEmails, l.emails[l.mi])
          /\ UNCHANGED processedEmails
          /\ Set(p, attachmentCatch(Failure(l), UniqueViolation))
       \/ /\ Throws
          /\ UNCHANGED processedEmails
          /\ Set(p, attachmentCatch(Failure(Faulted(l)), Unavailable))
    /\ UNCHANGED << isRunning, snapshots, dataRows, blobs, unread, outageLost, unmarked >>

(* -------------------- POST /hotels/:hotelId/seed ----------------------- *)
\* res.status(code).json(...): the request is answered
respond(l, code) == [ClearAttachment(l) EXCEPT !.pc = "done", !.status = code, !.hotel = NoHotel]

SeedExists == "Seed snapshot already exists for this hotel"
DuplicateFile == "Duplicate file detected"

\* res.status(400).json({ error: ... })
reject(l, error) == [respond(l, 400) EXCEPT !.err = error]

\* hotelService.getHotelById(hotelId)
getHotelById(id) == { h \in HotelTable : h.id = id }

\* The j-th seed upload request arrives, for a hotel and with a file, and the
\* hotel is looked up.
SeedRequest(j, hotelId, file) ==
    LET p == << "seed", j >>
        l == [proc[p] EXCEPT !.file = file]
        found == getHotelById(hotelId)
    IN
    /\ proc[p].pc = "idle"
    /\ \A i \in 1..(j - 1) : proc[<< "seed", i >>].pc # "idle"
    /\ \/ /\ Answers
          /\ IF found = {}
             THEN Set(p, respond(l, 404))
             ELSE Set(p, [l EXCEPT !.pc = "seedFindExisting", !.hotel = CHOOSE h \in found : TRUE])
       \/ /\ Throws
          /\ Set(p, respond(Faulted(l), 500))
    /\ UNCHANGED << isRunning, snapshots, dataRows, processedEmails, blobs, unread, outageLost, unmarked >>

\* Fault variant: the existence check only counts seeds that are COMPLETED.
findCompletedSeed(snaps, hotelId) ==
    { s \in DOMAIN snaps : /\ snaps[s].hotelId = hotelId /\ snaps[s].isSeedSnapshot
                           /\ snaps[s].processingStatus = "COMPLETED" }

\* prisma.historyForecastSnapshot.findFirst({ where: { hotelId, isSeedSnapshot: true } })
findExistingSeed(snaps, hotelId) ==
    { s \in DOMAIN snaps : snaps[s].hotelId = hotelId /\ snaps[s].isSeedSnapshot }

SeedFindExisting(p) ==
    LET l == proc[p] IN
    /\ l.pc = "seedFindExisting"
    /\ \/ /\ Answers
          /\ IF findExistingSeed(snapshots, l.hotel.id) # {}
             THEN Set(p, reject(l, SeedExists))
             ELSE Set(p, [l EXCEPT !.pc = "seedCheckHash",
                                   !.fileHash = calculateFileHash(l.file.contentBytes)])
       \/ /\ Throws
          /\ Set(p, respond(Faulted(l), 500))
    /\ UNCHANGED << isRunning, snapshots, dataRows, processedEmails, blobs, unread, outageLost, unmarked >>

\* snapshotService.checkDuplicateByHash(fileHash)
SeedCheckHash(p) ==
    LET l == proc[p] IN
    /\ l.pc = "seedCheckHash"
    /\ \/ /\ Answers
          /\ IF checkDuplicateByHash(snapshots, l.fileHash) # {}
             THEN Set(p, reject(l, DuplicateFile))
             ELSE Set(p, [l EXCEPT !.pc = "seedUpload"])
       \/ /\ Throws
          /\ Set(p, respond(Faulted(l), 500))
    /\ UNCHANGED << isRunning, snapshots, dataRows, processedEmails, blobs, unread, outageLost, unmarked >>

\* blobStorageService.uploadFile(hotelId, file.originalname, file.buffer)
SeedUpload(p) ==
    LET l == proc[p] IN
    /\ l.pc = "seedUpload"
    /\ \/ /\ Answers
          /\ blobs' = uploadFile(blobs, BlobUrl(p, l.hotel.id, l.file.name),
                                  l.hotel.id, l.file.name, l.file.contentBytes)
          /\ Set(p, [l EXCEPT !.pc = "seedCreate", !.blobUrl = BlobUrl(p, l.hotel.id, l.file.name)])
       \/ /\ Throws
          /\ UNCHANGED blobs
          /\ Set(p, respond(Faulted(l), 500))
    /\ UNCHANGED << isRunning, snapshots, dataRows, processedEmails, unread, outageLost, unmarked >>

\* createSnapshotRecord(..., true), then the file is parsed and saveSnapshotData is entered
SeedCreate(p) ==
    LET l == proc[p]
        rec == NewSnapshot(l.hotel.id, l.file.name, l.blobUrl, l.fileHash,
                           l.hotel.totalAvailableRooms, TRUE)
    IN
    /\ l.pc = "seedCreate"
    /\ \/ /\ Answers
          /\ FileHashFree(snapshots, l.fileHash)
          /\ snapshots' = createSnapshotRecord(snapshots, NewSnapshotId(p, l.file.name), rec)
          /\ dataRows' = [s \in DOMAIN snapshots' |-> IF s \in DOMAIN dataRows THEN dataRows[s] ELSE << >>]
          /\ Set(p, [l EXCEPT !.pc = "save", !.snap = NewSnapshotId(p, l.file.name),
                              !.rows = parseHistoryForecastFile(l.file.contentBytes,
                                                                l.hotel.totalAvailableRooms)])
       \/ /\ Answers
          /\ ~FileHashFree(snapshots, l.fileHash)
          /\ UNCHANGED << snapshots, dataRows >>
          /\ Set(p, respond(l, 500))
       \/ /\ Throws
          /\ UNCHANGED << snapshots, dataRows >>
          /\ Set(p, respond(Faulted(l), 500))
    /\ UNCHANGED << isRunning, processedEmails, blobs, unread, outageLost, unmarked >>

(* --------------------------- the specification ------------------------- *)
Next ==
    \/ \E k \in 1..MaxTriggers : Trigger(k)
    \/ \E p \in Cycles : CycleEnds(p)
    \/ \E p \in Cycles : Fetch(p)
    \/ \E p \in Cycles : IsProcessed(p)
    \/ \E p \in Cycles : GetAttachments(p)
    \/ \E p \in Cycles : CheckHash(p)
    \/ \E p \in Cycles : Upload(p)
    \/ \E p \in Cycles : MarkAsProcessed(p)
    \/ \E p \in Cycles : Create(p)
    \/ \E p \in Procs : TxWrites(p)
    \/ \E p \in Procs : TxCommit(p)
    \/ \E p \in Procs : MarkInner(p)
    \/ \E p \in Cycles : MarkOuter(p)
    \/ \E p \in Cycles : Record(p)
    \/ \E j \in 1..MaxSeedUploads, h \in HotelIds \cup { "hX" }, f \in SeedFiles : SeedRequest(j, h, f)
    \/ \E p \in SeedRequests : SeedFindExisting(p)
    \/ \E p \in SeedRequests : SeedCheckHash(p)
    \/ \E p \in SeedRequests : SeedUpload(p)
    \/ \E p \in SeedRequests : SeedCreate(p)

Spec == Init /\ [][Next]_vars

(* ------------------- seed uploads arriving together -------------------- *)
\* The express server handles the requests of POST /hotels/:hotelId/seed
\* concurrently: MaxSeedRace requests are in flight and no cycle runs.
SeedRace == { << "seed", j >> : j \in 1..MaxSeedRace }

SeedInit ==
    /\ isRunning = FALSE
    /\ proc = [p \in SeedRace |-> Idle]
    /\ snapshots = << >>
    /\ dataRows = << >>
    /\ processedEmails = {}
    /\ blobs = {}
    /\ unread = { Mailbox[i].messageId : i \in 1..Len(Mailbox) }
    /\ faults = 0
    /\ outageLost = {}
    /\ unmarked = {}

SeedNext ==
    \/ \E j \in 1..MaxSeedRace, h \in HotelIds \cup { "hX" }, f \in SeedFiles : SeedRequest(j, h, f)
    \/ \E p \in SeedRace : SeedFindExisting(p)
    \/ \E p \in SeedRace : SeedCheckHash(p)
    \/ \E p \in SeedRace : SeedUpload(p)
    \/ \E p \in SeedRace : SeedCreate(p)
    \/ \E p \in SeedRace : TxWrites(p)
    \/ \E p \in SeedRace : TxCommit(p)
    \/ \E p \in SeedRace : MarkInner(p)

SeedSpec == SeedInit /\ [][SeedNext]_vars

(* -------------- the seed overlay: updateSeedActualsWithHistory --------- *)
\* historyRows.filter((row) => row.dataType === 'HISTORY')
filterHistory(rows) == SelectSeq(rows, LAMBDA r : r.dataType = "HISTORY")

\* Fault variant: .slice(0, n), the first rows instead of the last.
sliceFirst(seq, n) == IF Len(seq) <= n THEN seq ELSE SubSeq(seq, 1, n)

\* .slice(-n)
sliceLast(seq, n) == IF Len(seq) <= n THEN seq ELSE SubSeq(seq, Len(seq) - n + 1, Len(seq))

historyData(historyRows) == sliceLast(filterHistory(historyRows), OverlayRows)

\* findFirst({ where: { hotelId, isSeedSnapshot: true, processed: true,
\* processingStatus: 'COMPLETED' }, orderBy: { snapshotTime: 'asc' } }): the
\* candidates; the snapshot time that orders them is not part of the model.
findSeedSnapshot(snaps, hotelId) ==
    { s \in DOMAIN snaps : /\ snaps[s].hotelId = hotelId /\ snaps[s].isSeedSnapshot
                           /\ snaps[s].processed /\ snaps[s].processingStatus = "COMPLETED" }

\* Fault variant: the row is looked up by stay date alone.
findRowAnyType(table, seedId, stayDate) ==
    { i \in 1..Len(table[seedId]) : table[seedId][i].stayDate = stayDate }

\* prisma.historyForecastData.findFirst({ where: { snapshotId, stayDate, dataType: 'HISTORY' } })
findExistingRow(table, seedId, stayDate) ==
    { i \in 1..Len(table[seedId]) :
        table[seedId][i].stayDate = stayDate /\ table[seedId][i].dataType = "HISTORY" }

\* Fault variant: the update adds the new figures to the stored ones.
addToRow(table, seedId, i, historyRow) ==
    [table EXCEPT ![seedId][i].roomNights = @ + historyRow.roomNights,
                  ![seedId][i].roomRevenue = @ + historyRow.roomRevenue]

\* prisma.historyForecastData.update({ where: { id }, data: { col1..col30,
\* roomNights, roomRevenue, ooRooms, occupancyPercent, adr, revPAR } }): the
\* figures of the row are replaced, its keys and its row index are not in data.
updateRow(table, seedId, i, historyRow) ==
    [table EXCEPT ![seedId][i].roomNights = historyRow.roomNights,
                  ![seedId][i].roomRevenue = historyRow.roomRevenue]

\* The caller of the overlay and the state of one call.
OverlayCaller == << "overlay", 1 >>

\* before: the rows of the store when the call was made; firstFaulted: on the
\* second call, whether the first met an error
OverlayCall(hotelId, historyRows, call, before, firstFaulted) ==
    [pc |-> "findSeed", hotelId |-> hotelId, historyRows |-> historyRows,
     seedSnapshot |-> << >>, historyData |-> << >>, i |-> 0, existingRow |-> 0,
     updatedCount |-> 0, call |-> call, before |-> before,
     firstFaulted |-> firstFaulted, faulted |-> FALSE, threwAt |-> "", thrown |-> FALSE]

\* Fault variant: the catch of the overlay throws the error on to the caller.
overlayRethrows(l) == [Faulted(l) EXCEPT !.pc = "returned", !.thrown = TRUE]

\* catch (error) { console.error(...) }: "Don't throw"
overlayCatch(l) == [Faulted(l) EXCEPT !.pc = "returned"]

\* the for loop: the next row of historyData, or the end of the function
overlayNextRow(l) ==
    IF l.i < Len(l.historyData)
    THEN [l EXCEPT !.pc = "findRow", !.i = @ + 1, !.existingRow = 0]
    ELSE [l EXCEPT !.pc = "returned", !.existingRow = 0]

\* the seed snapshot is looked up; historyData is filtered and sliced
OverlayFindSeed(p) ==
    LET l == proc[p] IN
    /\ l.pc = "findSeed"
    /\ \/ /\ Answers
          /\ IF findSeedSnapshot(snapshots, l.hotelId) = {}
             THEN Set(p, [l EXCEPT !.pc = "returned"])
             ELSE \E t \in findSeedSnapshot(snapshots, l.hotelId) :
                     Set(p, overlayNextRow([l EXCEPT !.seedSnapshot = t,
                                                     !.historyData = historyData(l.historyRows)]))
       \/ /\ Throws
          /\ Set(p, overlayCatch(l))
    /\ UNCHANGED << isRunning, snapshots, dataRows, processedEmails, blobs, unread, outageLost, unmarked >>

\* the row of the seed with the stay date of historyRow is looked up
OverlayFindRow(p) ==
    LET l == proc[p]
        found == findExistingRow(dataRows, l.seedSnapshot, l.historyData[l.i].stayDate)
    IN
    /\ l.pc = "findRow"
    /\ \/ /\ Answers
          /\ IF found = {}
             THEN Set(p, overlayNextRow(l))
             ELSE Set(p, [l EXCEPT !.pc = "updateRow", !.existingRow = CHOOSE i \in found : TRUE])
       \/ /\ Throws
          /\ Set(p, overlayCatch(l))
    /\ UNCHANGED << isRunning, snapshots, dataRows, processedEmails, blobs, unread, outageLost, unmarked >>

\* the row found is updated with the figures of historyRow
OverlayUpdateRow(p) ==
    LET l == proc[p] IN
    /\ l.pc = "updateRow"
    /\ \/ /\ Answers
          /\ dataRows' = updateRow(dataRows, l.seedSnapshot, l.existingRow, l.historyData[l.i])
          /\ Set(p, overlayNextRow([l EXCEPT !.updatedCount = @ + 1]))
       \/ /\ Throws
          /\ UNCHANGED dataRows
          /\ Set(p, overlayCatch(l))
    /\ UNCHANGED << isRunning, snapshots, processedEmails, blobs, unread, outageLost, unmarked >>

\* the caller applies the overlay a second time, with the same rows
OverlayAgain(p) ==
    LET l == proc[p] IN
    /\ l.pc = "returned" /\ l.call = 1 /\ ~l.thrown
    /\ Set(p, OverlayCall(l.hotelId, l.historyRows, 2, dataRows, l.faulted))
    /\ UNCHANGED << isRunning, snapshots, dataRows, processedEmails, blobs, unread, faults,
                    outageLost, unmarked >>

\* The store the overlay is applied to: hotel hA has a completed seed and a
\* completed hourly snapshot, hotel hB a seed that completed or failed.
SeedOfA == NewSnapshotId(<< "seed", 1 >>, "seed.txt")
SeedOfB == NewSnapshotId(<< "seed", 2 >>, "seed2.txt")
HourlyOfA == NewSnapshotId(<< "cycle", 1 >>, "a.txt")

\* a parsed row of the given type for day d of November 2025
RowOf(type, d, nights, revenue, rowIndex) ==
    parseLine(Line(MinColumns + 1, type, << d, 11, 25 >>, nights, revenue), rowIndex, 0)

\* rows of a stored file: a HISTORY row for each of the days and a FORECAST
\* row for day 1
StoredRows(days) ==
    LET hist == [d \in 1..MaxHistoryRows |-> RowOf("History", d, 10 + d, 100 * d, d - 1)]
    IN  SelectSeq(hist, LAMBDA r : \E d \in days : r = hist[d])
            \o << RowOf("Forecast", 1, 5, 500, MaxHistoryRows) >>

\* a snapshot that saveSnapshotData completed with the given rows
StoredSnapshot(id, hotelId, filename, bytes, isSeed, rows) ==
    commitSnapshot(id :> NewSnapshot(hotelId, filename, BlobUrl(id, hotelId, filename),
                                     calculateFileHash(bytes), 100, isSeed),
                   id, [open |-> TRUE, status |-> "COMPLETED", rows |-> rows])

\* a snapshot whose save failed: no rows, marked FAILED
FailedSnapshot(id, hotelId, filename, bytes, isSeed) ==
    markSnapshotFailed(id :> NewSnapshot(hotelId, filename, BlobUrl(id, hotelId, filename),
                                         calculateFileHash(bytes), 100, isSeed),
                       id, Unavailable)

SeedLayouts == { { 1, 2, MaxHistoryRows }, { 2 }, 1..MaxHistoryRows }

\* the rows handed to the overlay: n HISTORY rows for the days 1..n in file
\* order, alone, with a FORECAST row for day 1 before or after them, or with a
\* second HISTORY row for day 1 after them
InputRows(n, shape) ==
    LET hist == [d \in 1..n |-> RowOf("History", d, 50 + d, 1000 * d, d)]
    IN  CASE shape = "forecastFirst" -> << RowOf("Forecast", 1, 7, 700, 0) >> \o hist
          [] shape = "forecastLast"  -> hist \o << RowOf("Forecast", 1, 7, 700, n + 1) >>
          [] shape = "repeat"        -> hist \o << RowOf("History", 1, 99, 9900, n + 1) >>
          [] OTHER                   -> hist

InputShapes == { "plain", "forecastFirst", "forecastLast", "repeat" }

OverlayInit ==
    /\ isRunning = FALSE
    /\ \E days \in SeedLayouts, seedB \in { "COMPLETED", "FAILED" } :
          /\ snapshots = StoredSnapshot(SeedOfA, "hA", "seed.txt", 3, TRUE, StoredRows(days))
                       @@ (IF seedB = "COMPLETED"
                           THEN StoredSnapshot(SeedOfB, "hB", "seed2.txt", 1, TRUE, StoredRows(days))
                           ELSE FailedSnapshot(SeedOfB, "hB", "seed2.txt", 1, TRUE))
                       @@ StoredSnapshot(HourlyOfA, "hA", "a.txt", 2, FALSE, StoredRows(days))
          /\ dataRows = [s \in { SeedOfA, SeedOfB, HourlyOfA } |->
                            IF s = SeedOfB /\ seedB = "FAILED" THEN << >>
                            ELSE DataRecords(StoredRows(days), s, IF s = SeedOfB THEN "hB" ELSE "hA")]
    /\ \E h \in HotelIds, n \in 0..MaxHistoryRows, shape \in InputShapes :
          proc = [p \in { OverlayCaller } |-> OverlayCall(h, InputRows(n, shape), 1, dataRows, FALSE)]
    /\ processedEmails = {}
    /\ blobs = { [url |-> BlobUrl(SeedOfA, "hA", "seed.txt"), hotelId |-> "hA",
                  originalFilename |-> "seed.txt", bytes |-> 3],
                 [url |-> BlobUrl(SeedOfB, "hB", "seed2.txt"), hotelId |-> "hB",
                  originalFilename |-> "seed2.txt", bytes |-> 1],
                 [url |-> BlobUrl(HourlyOfA, "hA", "a.txt"), hotelId |-> "hA",
                  originalFilename |-> "a.txt", bytes |-> 2] }
    /\ unread = {}
    /\ faults = 0
    /\ outageLost = {}
    /\ unmarked = {}

\* Ingestion cycles of a hotel that was onboarded before: the seed upload of
\* seed.txt for hotel hA has completed and no upload is in flight.
SeededInit ==
    /\ isRunning = FALSE
    /\ proc = [p \in Cycles |-> Idle]
    /\ snapshots = StoredSnapshot(SeedOfA, "hA", "seed.txt", 3, TRUE,
                                  parseHistoryForecastFile(3, 120))
    /\ dataRows = (SeedOfA :> DataRecords(parseHistoryForecastFile(3, 120), SeedOfA, "hA"))
    /\ processedEmails = {}
    /\ blobs = uploadFile({}, BlobUrl(SeedOfA, "hA", "seed.txt"), "hA", "seed.txt", 3)
    /\ unread = { Mailbox[i].messageId : i \in 1..Len(Mailbox) }
    /\ faults = 0
    /\ outageLost = {}
    /\ unmarked = {}

SeededNext ==
    \/ \E k \in 1..MaxTriggers : Trigger(k)
    \/ \E p \in Cycles : CycleEnds(p)
    \/ \E p \in Cycles : Fetch(p)
    \/ \E p \in Cycles : IsProcessed(p)
    \/ \E p \in Cycles : GetAttachments(p)
    \/ \E p \in Cycles : CheckHash(p)
    \/ \E p \in Cycles : Upload(p)
    \/ \E p \in Cycles : MarkAsProcessed(p)
    \/ \E p \in Cycles : Create(p)
    \/ \E p \in Cycles : TxWrites(p)
    \/ \E p \in Cycles : TxCommit(p)
    \/ \E p \in Cycles : MarkInner(p)
    \/ \E p \in Cycles : MarkOuter(p)
    \/ \E p \in Cycles : Record(p)

SeededSpec == SeededInit /\ [][SeededNext]_vars

\* One step of cycle p.  Every call the cycle awaits settles: it resolves or
\* it rejects, so a cycle that can take a step takes one.
CycleStep(p) ==
    \/ Fetch(p) \/ IsProcessed(p) \/ GetAttachments(p) \/ CheckHash(p) \/ Upload(p)
    \/ MarkAsProcessed(p) \/ Create(p) \/ TxWrites(p) \/ TxCommit(p) \/ MarkInner(p)
    \/ MarkOuter(p) \/ Record(p) \/ CycleEnds(p)

SeededFairSpec == SeededSpec /\ \A p \in Cycles : WF_vars(CycleStep(p))

\* Ingestion cycles over a mail folder that holds, unread, mail m2, with or
\* without mail m1, and any of the messages of SkippedMail; the record of m0 is
\* in the store.
SkippedIds == { SkippedMail[i].messageId : i \in 1..Len(SkippedMail) }

SkipInit ==
    /\ isRunning = FALSE
    /\ proc = [p \in Cycles |-> Idle]
    /\ snapshots = << >>
    /\ dataRows = << >>
    /\ processedEmails = recordProcessedEmail({}, "m0", calculateFileHash(3))
    /\ blobs = {}
    /\ \E skipped \in SUBSET SkippedIds, others \in { { "m2" }, { "m1", "m2" } } :
          unread = skipped \cup others
    /\ faults = 0
    /\ outageLost = {}
    /\ unmarked = {}

SkipSpec == SkipInit /\ [][SeededNext]_vars

OverlayNext ==
    \/ OverlayFindSeed(OverlayCaller)
    \/ OverlayFindRow(OverlayCaller)
    \/ OverlayUpdateRow(OverlayCaller)
    \/ OverlayAgain(OverlayCaller)

OverlaySpec == OverlayInit /\ [][OverlayNext]_vars

(* ------- the pickup comparison: GET /pickup/:hotelId and .../daily ----- *)
\* the day the request is served: new Date() with the time set to midnight
Today == << 2025, 11, 2 >>

\* stay dates compare as calendar dates
DateLeq(a, b) ==
    \/ a[1] < b[1]
    \/ a[1] = b[1] /\ a[2] < b[2]
    \/ a[1] = b[1] /\ a[2] = b[2] /\ a[3] <= b[3]

\* n / d rounded to the nearest integer, halves away from zero (d > 0)
RoundDiv(n, d) ==
    IF n >= 0 THEN (2 * n + d) \div (2 * d) ELSE 0 - ((2 * (0 - n) + d) \div (2 * d))

\* createPickupMetadata(value) for a whole number
createPickupMetadata(value) ==
    [value |-> value, isPositive |-> value > 0, isNegative |-> value < 0, isZero |-> value = 0]

\* rooms > 0 ? revenue / rooms : 0, as a fraction << numerator, denominator >>
safeAdr(revenue, rooms) == IF rooms > 0 THEN << revenue, rooms >> ELSE << 0, 1 >>

\* createPickupMetadata(adr2 - adr1): the value in hundredths, toFixed(2); the
\* flags are taken from the difference before it is rounded
adrPickupMetadata(adr2, adr1) ==
    LET num == adr2[1] * adr1[2] - adr1[1] * adr2[2]
        den == adr2[2] * adr1[2]
    IN  [value |-> RoundDiv(100 * num, den),
         isPositive |-> num > 0, isNegative |-> num < 0, isZero |-> num = 0]

\* findMany({ where: { snapshotId, dataType: 'FORECAST' } }): the rows, as a set
forecastData(table, id) ==
    { table[id][i] : i \in { j \in 1..Len(table[id]) : table[id][j].dataType = "FORECAST" } }

RECURSIVE SumOf(_, _)
\* reduce((sum, row) => sum + Number(row[field]), 0)
SumOf(rows, field) ==
    IF rows = {} THEN 0
    ELSE LET r == CHOOSE x \in rows : TRUE IN r[field] + SumOf(rows \ { r }, field)

\* Fault variant: the ADR of a side is the average of the ADRs of its rows.
averageOfAdrs(rows) ==
    LET perRow == { << r.stayDate, r.dataType, RoundDiv(100 * safeAdr(r.roomRevenue, r.roomNights)[1],
                                                        safeAdr(r.roomRevenue, r.roomNights)[2]) >> : r \in rows }
        RECURSIVE Total(_)
        Total(S) == IF S = {} THEN 0 ELSE LET x == CHOOSE y \in S : TRUE IN x[3] + Total(S \ { x })
    IN  [rooms |-> SumOf(rows, "roomNights"), revenue |-> SumOf(rows, "roomRevenue"),
         adr |-> IF rows = {} THEN << 0, 1 >> ELSE << Total(perRow), 100 * Cardinality(perRow) >>]

\* rooms, revenue and ADR of one side: the sums over its rows and their ratio
sideOf(rows) ==
    [rooms |-> SumOf(rows, "roomNights"), revenue |-> SumOf(rows, "roomRevenue"),
     adr |-> safeAdr(SumOf(rows, "roomRevenue"), SumOf(rows, "roomNights"))]

\* the pickup triple of the current side against the baseline
pickupOf(side1, side2) ==
    [puRooms |-> createPickupMetadata(side2.rooms - side1.rooms),
     puRevenue |-> createPickupMetadata(side2.revenue - side1.revenue),
     puADR |-> adrPickupMetadata(side2.adr, side1.adr)]

\* a row of the MTD and monthly tables: rooms, ADR (toFixed(2), in hundredths)
\* and revenue of the current side, and the pickup triple
pickupRow(rows1, rows2) ==
    [rooms |-> sideOf(rows2).rooms,
     adr |-> RoundDiv(100 * sideOf(rows2).adr[1], sideOf(rows2).adr[2]),
     revenue |-> sideOf(rows2).revenue,
     pickup |-> pickupOf(sideOf(rows1), sideOf(rows2))]

\* a row of the daily tables: both sides and the pickup triple
dailyRow(rows1, rows2) ==
    [snapshot1 |-> sideOf(rows1), snapshot2 |-> sideOf(rows2),
     pickup |-> pickupOf(sideOf(rows1), sideOf(rows2))]

\* the month-to-date rows: startOfCurrentMonth <= stayDate <= today
mtdData(data) ==
    { r \in data : DateLeq(<< Today[1], Today[2], 1 >>, r.stayDate) /\ DateLeq(r.stayDate, Today) }

monthKey(stayDate) == << stayDate[1], stayDate[2] >>

\* the body of GET /pickup/:hotelId: the MTD row and one row per month
pickupBody(data1, data2) ==
    [mtd |-> pickupRow(mtdData(data1), mtdData(data2)),
     monthly |-> [m \in { monthKey(r.stayDate) : r \in data1 \cup data2 } |->
                     pickupRow({ r \in data1 : monthKey(r.stayDate) = m },
                               { r \in data2 : monthKey(r.stayDate) = m })]]

\* the body of GET /pickup/:hotelId/daily: one row per stay date of either side
dailyBody(data1, data2) ==
    [d \in { r.stayDate : r \in data1 \cup data2 } |->
        dailyRow({ r \in data1 : r.stayDate = d }, { r \in data2 : r.stayDate = d })]

\* findUnique({ where: { id } })
findSnapshot(snaps, id) == IF id \in DOMAIN snaps THEN { id } ELSE {}

\* if (snapshot1.snapshotTime > snapshot2.snapshotTime) swap: << baseline, current >>
olderFirst(snaps, id1, id2) ==
    IF snaps[id1].snapshotTime > snaps[id2].snapshotTime THEN << id2, id1 >> ELSE << id1, id2 >>

\* Fault variant: the list of the latest two does not leave out seed snapshots.
latestTwoOfAnyKind(snaps, hotelId) ==
    LET ok == { s \in DOMAIN snaps : /\ snaps[s].hotelId = hotelId /\ snaps[s].processed
                                       /\ snaps[s].processingStatus = "COMPLETED" }
    IN  { pair \in ok \X ok :
            /\ pair[1] # pair[2]
            /\ snaps[pair[1]].snapshotTime <= snaps[pair[2]].snapshotTime
            /\ \A o \in ok \ { pair[1], pair[2] } :
                  snaps[o].snapshotTime <= snaps[pair[1]].snapshotTime }

\* findMany({ where: { hotelId, processed, COMPLETED, isSeedSnapshot: false },
\* orderBy: { snapshotTime: 'desc' }, take: 2 }): the pairs << previous, latest >>
\* the store may answer with (equal times come in any order)
latestTwo(snaps, hotelId) ==
    LET ok == { s \in DOMAIN snaps : /\ snaps[s].hotelId = hotelId /\ snaps[s].processed
                                       /\ snaps[s].processingStatus = "COMPLETED"
                                       /\ ~snaps[s].isSeedSnapshot }
    IN  { pair \in ok \X ok :
            /\ pair[1] # pair[2]
            /\ snaps[pair[1]].snapshotTime <= snaps[pair[2]].snapshotTime
            /\ \A o \in ok \ { pair[1], pair[2] } :
                  snaps[o].snapshotTime <= snaps[pair[1]].snapshotTime }

PickupCaller == << "pickup", 1 >>
NoId == << >>

\* a request of the caller: the route, the hotel and the two query parameters;
\* first: on the second request, the answer to the first
PickupCall(route, hotelId, snapshot1Id, snapshot2Id, call, first) ==
    [pc |-> IF route = "actual" THEN "selectActual" ELSE "select",
     route |-> route, hotelId |-> hotelId,
     snapshot1Id |-> snapshot1Id, snapshot2Id |-> snapshot2Id,
     snapshot1 |-> NoId, snapshot2 |-> NoId, status |-> 0, body |-> << >>,
     call |-> call, first |-> first, faulted |-> FALSE, threwAt |-> ""]

pickupRespond(l, code, body) == [l EXCEPT !.pc = "done", !.status = code, !.body = body]

\* the two snapshots are looked up, or the latest two are listed, and checked
PickupSelect(p) ==
    LET l == proc[p]
        s1 == findSnapshot(snapshots, l.snapshot1Id)
        s2 == findSnapshot(snapshots, l.snapshot2Id)
    IN
    /\ l.pc = "select"
    /\ \/ /\ Answers
          /\ l.snapshot1Id # NoId /\ l.snapshot2Id # NoId
          /\ IF s1 = {} \/ s2 = {}
             THEN Set(p, pickupRespond(l, 404, << >>))
             ELSE IF snapshots[l.snapshot1Id].hotelId # l.hotelId
                     \/ snapshots[l.snapshot2Id].hotelId # l.hotelId
             THEN Set(p, pickupRespond(l, 400, << >>))
             ELSE Set(p, [l EXCEPT !.pc = "read",
                                   !.snapshot1 = olderFirst(snapshots, l.snapshot1Id, l.snapshot2Id)[1],
                                   !.snapshot2 = olderFirst(snapshots, l.snapshot1Id, l.snapshot2Id)[2]])
       \/ /\ Answers
          /\ l.snapshot1Id = NoId \/ l.snapshot2Id = NoId
          /\ IF latestTwo(snapshots, l.hotelId) = {}
             THEN Set(p, pickupRespond(l, 400, << >>))
             ELSE \E pair \in latestTwo(snapshots, l.hotelId) :
                     Set(p, [l EXCEPT !.pc = "read",
                                      !.snapshot1 = olderFirst(snapshots, pair[1], pair[2])[1],
                                      !.snapshot2 = olderFirst(snapshots, pair[1], pair[2])[2]])
       \/ /\ Throws
          /\ Set(p, pickupRespond(Faulted(l), 500, << >>))
    /\ UNCHANGED << isRunning, snapshots, dataRows, processedEmails, blobs, unread, outageLost, unmarked >>

\* the FORECAST rows of both snapshots are read and the answer is computed
PickupRead(p) ==
    LET l == proc[p]
        data1 == forecastData(dataRows, l.snapshot1)
        data2 == forecastData(dataRows, l.snapshot2)
    IN
    /\ l.pc = "read"
    /\ \/ /\ Answers
          /\ Set(p, pickupRespond(l, 200,
                    [snapshot1 |-> l.snapshot1, snapshot2 |-> l.snapshot2,
                     pickup |-> IF l.route = "daily" THEN dailyBody(data1, data2)
                                ELSE pickupBody(data1, data2)]))
       \/ /\ Throws
          /\ Set(p, pickupRespond(Faulted(l), 500, << >>))
    /\ UNCHANGED << isRunning, snapshots, dataRows, processedEmails, blobs, unread, outageLost, unmarked >>

\* findFirst({ where: { hotelId, processed, COMPLETED, isSeedSnapshot: false },
\* orderBy: { snapshotTime: 'desc' } }): the snapshots the store may answer with
latestSnapshot(snaps, hotelId) ==
    LET ok == { s \in DOMAIN snaps : /\ snaps[s].hotelId = hotelId /\ snaps[s].processed
                                       /\ snaps[s].processingStatus = "COMPLETED"
                                       /\ ~snaps[s].isSeedSnapshot }
    IN  { s \in ok : \A o \in ok : snaps[o].snapshotTime <= snaps[s].snapshotTime }

\* findMany({ where: { snapshotId, dataType: 'HISTORY' } }): the rows, as a set
historyOf(table, id) ==
    { table[id][i] : i \in { j \in 1..Len(table[id]) : table[id][j].dataType = "HISTORY" } }

\* findMany({ where: { snapshotId } }): the rows, as a set
allData(table, id) == { table[id][i] : i \in 1..Len(table[id]) }

\* new Map(data.map((d) => [d.stayDate.toISOString(), d])): one row per stay
\* date; which row of a stay date stays in the map depends on the order in
\* which the store lists rows of one stay date
dateMaps(data) ==
    { m \in [{ r.stayDate : r \in data } -> data] : \A d \in DOMAIN m : m[d].stayDate = d }

\* the value of a map at a stay date, as a set of at most one row
mapGet(m, d) == IF d \in DOMAIN m THEN { m[d] } ELSE {}

\* the body of GET /comparison/:hotelId/actual-vs-snapshot
actualBody(seedMap, comparisonMap) ==
    [d \in DOMAIN seedMap \cup DOMAIN comparisonMap |->
        [dataType |-> IF d \in DOMAIN comparisonMap THEN comparisonMap[d].dataType ELSE "null",
         actual |-> sideOf(mapGet(seedMap, d)),
         snapshot |-> sideOf(mapGet(comparisonMap, d)),
         difference |-> pickupOf(sideOf(mapGet(seedMap, d)), sideOf(mapGet(comparisonMap, d)))]]

\* GET /comparison/:hotelId/actual-vs-snapshot: the seed and the comparison
\* snapshot are looked up and checked
ActualSelect(p) ==
    LET l == proc[p]
        seeds == findSeedSnapshot(snapshots, l.hotelId)
        found == IF l.snapshot1Id # NoId THEN findSnapshot(snapshots, l.snapshot1Id)
                 ELSE latestSnapshot(snapshots, l.hotelId)
    IN
    /\ l.pc = "selectActual"
    /\ \/ /\ Answers
          /\ IF seeds = {} \/ found = {}
             THEN Set(p, pickupRespond(l, 404, << >>))
             ELSE \E seed \in seeds, c \in found :
                     IF snapshots[c].hotelId # l.hotelId
                     THEN Set(p, pickupRespond(l, 400, << >>))
                     ELSE Set(p, [l EXCEPT !.pc = "readActual", !.snapshot1 = seed, !.snapshot2 = c])
       \/ /\ Throws
          /\ Set(p, pickupRespond(Faulted(l), 500, << >>))
    /\ UNCHANGED << isRunning, snapshots, dataRows, processedEmails, blobs, unread, outageLost, unmarked >>

\* the HISTORY rows of the seed and all rows of the comparison snapshot are
\* read and the answer is computed
ActualRead(p) ==
    LET l == proc[p] IN
    /\ l.pc = "readActual"
    /\ \/ /\ Answers
          /\ \E seedMap \in dateMaps(historyOf(dataRows, l.snapshot1)),
                comparisonMap \in dateMaps(allData(dataRows, l.snapshot2)) :
                Set(p, pickupRespond(l, 200,
                       [seedSnapshot |-> l.snapshot1, comparisonSnapshot |-> l.snapshot2,
                        daily |-> actualBody(seedMap, comparisonMap)]))
       \/ /\ Throws
          /\ Set(p, pickupRespond(Faulted(l), 500, << >>))
    /\ UNCHANGED << isRunning, snapshots, dataRows, processedEmails, blobs, unread, outageLost, unmarked >>

\* findMany({ where: { hotelId, processed, COMPLETED, isSeedSnapshot: false,
\* snapshotTime: { gte: lastYearDate - 7 days, lte: lastYearDate + 7 days } },
\* orderBy: { snapshotTime: 'asc' } }): times are counted in days
stlySnapshots(snaps, hotelId, lastYearDate) ==
    { s \in DOMAIN snaps : /\ snaps[s].hotelId = hotelId /\ snaps[s].processed
                           /\ snaps[s].processingStatus = "COMPLETED"
                           /\ ~snaps[s].isSeedSnapshot
                           /\ snaps[s].snapshotTime >= lastYearDate - StlyWindow
                           /\ snaps[s].snapshotTime <= lastYearDate + StlyWindow }

\* stlySnapshots[0]: the first of the list in ascending order of snapshot time
firstOfList(snaps, list) ==
    { s \in list : \A o \in list : snaps[s].snapshotTime <= snaps[o].snapshotTime }

\* a request of GET /comparison/:hotelId/stly: lastYearDate is the date
\* parameter (or today) set back by one year
StlyCall(hotelId, lastYearDate) ==
    [PickupCall("stly", hotelId, NoId, NoId, 1, << >>) EXCEPT !.pc = "selectStly"]
        @@ [lastYearDate |-> lastYearDate]

\* the daily rows of GET /comparison/:hotelId/stly
stlyBody(stlyMap, latestMap) ==
    [d \in DOMAIN stlyMap \cup DOMAIN latestMap |->
        [stly |-> sideOf(mapGet(stlyMap, d)),
         latest |-> sideOf(mapGet(latestMap, d)),
         difference |-> pickupOf(sideOf(mapGet(stlyMap, d)), sideOf(mapGet(latestMap, d)))]]

\* the snapshot of a year ago and the latest snapshot are looked up
StlySelect(p) ==
    LET l == proc[p]
        list == stlySnapshots(snapshots, l.hotelId, l.lastYearDate)
        latest == latestSnapshot(snapshots, l.hotelId)
    IN
    /\ l.pc = "selectStly"
    /\ \/ /\ Answers
          /\ IF list = {} \/ latest = {}
             THEN Set(p, pickupRespond(l, 404, << >>))
             ELSE \E stly \in firstOfList(snapshots, list), s \in latest :
                     Set(p, [l EXCEPT !.pc = "readStly", !.snapshot1 = stly, !.snapshot2 = s])
       \/ /\ Throws
          /\ Set(p, pickupRespond(Faulted(l), 500, << >>))
    /\ UNCHANGED << isRunning, snapshots, dataRows, processedEmails, blobs, unread, outageLost, unmarked >>

\* the FORECAST rows of both snapshots are read and the answer is computed
StlyRead(p) ==
    LET l == proc[p] IN
    /\ l.pc = "readStly"
    /\ \/ /\ Answers
          /\ \E stlyMap \in dateMaps(forecastData(dataRows, l.snapshot1)),
                latestMap \in dateMaps(forecastData(dataRows, l.snapshot2)) :
                Set(p, pickupRespond(l, 200,
                    [stlySnapshot |-> l.snapshot1, latestSnapshot |-> l.snapshot2,
                     daily |-> stlyBody(stlyMap, latestMap)]))
       \/ /\ Throws
          /\ Set(p, pickupRespond(Faulted(l), 500, << >>))
    /\ UNCHANGED << isRunning, snapshots, dataRows, processedEmails, blobs, unread, outageLost, unmarked >>

\* the caller repeats a request made with two ids, with the ids exchanged
PickupSwapped(p) ==
    LET l == proc[p] IN
    /\ l.pc = "done" /\ l.call = 1
    /\ l.route \in { "pickup", "daily" }
    /\ l.snapshot1Id # NoId /\ l.snapshot2Id # NoId
    /\ Set(p, PickupCall(l.route, l.hotelId, l.snapshot2Id, l.snapshot1Id, 2,
                         [status |-> l.status, body |-> l.body]))
    /\ UNCHANGED << isRunning, snapshots, dataRows, processedEmails, blobs, unread, faults,
                    outageLost, unmarked >>

\* The store the comparisons read: for hotel hA a completed seed, two
\* completed hourly snapshots and one that failed, for hotel hB one completed
\* hourly snapshot; createSnapshotRecord stores metadata.snapshotTime.
EarlierOfA == NewSnapshotId(<< "cycle", 1 >>, "history_forecast1.txt")
LaterOfA == NewSnapshotId(<< "cycle", 2 >>, "history_forecast2.txt")
OnlyOfB == NewSnapshotId(<< "cycle", 2 >>, "c.txt")
FailedOfA == NewSnapshotId(<< "cycle", 2 >>, "d.txt")
MissingId == NewSnapshotId(<< "cycle", 0 >>, "")

\* the snapshot time of the records of a store
WithTime(store, time) == [s \in DOMAIN store |-> store[s] @@ [snapshotTime |-> time]]

TimedSnapshot(id, hotelId, filename, bytes, rows, time) ==
    id :> (StoredSnapshot(id, hotelId, filename, bytes, FALSE, rows)[id] @@ [snapshotTime |-> time])

ComparedRows(k) ==
    CASE k = 1 -> << RowOf("History", 1, 45, 12500, 0), RowOf("Forecast", 2, 30, 6000, 1),
                     RowOf("Forecast", 3, 10, 3000, 2) >>
      [] k = 2 -> << RowOf("History", 1, 45, 12500, 0), RowOf("Forecast", 2, 38, 9500, 1),
                     parseLine(Line(MinColumns + 1, "Forecast", << 1, 12, 25 >>, 20, 5000), 2, 0) >>
      [] OTHER -> << RowOf("History", 1, 40, 10000, 0) >>

\* the values of a snapshot id parameter
ComparedIds == { EarlierOfA, LaterOfA, OnlyOfB, SeedOfA, FailedOfA, MissingId, NoId }

PickupInit ==
    /\ isRunning = FALSE
    /\ \E t1, t2 \in 1..MaxTime, k \in { 1, 3 } :
          /\ snapshots = TimedSnapshot(EarlierOfA, "hA", "history_forecast1.txt", 1, ComparedRows(k), t1)
                       @@ TimedSnapshot(LaterOfA, "hA", "history_forecast2.txt", 2, ComparedRows(2), t2)
                       @@ TimedSnapshot(OnlyOfB, "hB", "c.txt", 3, ComparedRows(1), 1)
                       @@ WithTime(StoredSnapshot(SeedOfA, "hA", "seed.txt", 4, TRUE, ComparedRows(3)), 1)
                       @@ WithTime(FailedSnapshot(FailedOfA, "hA", "d.txt", 5, FALSE), MaxTime)
          /\ dataRows = (EarlierOfA :> DataRecords(ComparedRows(k), EarlierOfA, "hA"))
                      @@ (LaterOfA :> DataRecords(ComparedRows(2), LaterOfA, "hA"))
                      @@ (OnlyOfB :> DataRecords(ComparedRows(1), OnlyOfB, "hB"))
                      @@ (SeedOfA :> DataRecords(ComparedRows(3), SeedOfA, "hA"))
                      @@ (FailedOfA :> << >>)
    /\ \/ \E route \in { "pickup", "daily" }, h \in HotelIds, id1, id2 \in ComparedIds :
             proc = [p \in { PickupCaller } |-> PickupCall(route, h, id1, id2, 1, << >>)]
       \/ \E h \in HotelIds, id \in ComparedIds :
             proc = [p \in { PickupCaller } |-> PickupCall("actual", h, id, NoId, 1, << >>)]
       \/ \E h \in HotelIds, lastYearDate \in 0..(MaxTime + StlyWindow + 1) :
             proc = [p \in { PickupCaller } |-> StlyCall(h, lastYearDate)]
    /\ processedEmails = {}
    /\ blobs = { [url |-> snapshots[s].blobUrl, hotelId |-> snapshots[s].hotelId,
                  originalFilename |-> snapshots[s].originalFilename,
                  bytes |-> snapshots[s].fileHash[2]] : s \in DOMAIN snapshots }
    /\ unread = {}
    /\ faults = 0
    /\ outageLost = {}
    /\ unmarked = {}

PickupNext ==
    \/ PickupSelect(PickupCaller)
    \/ PickupRead(PickupCaller)
    \/ PickupSwapped(PickupCaller)
    \/ ActualSelect(PickupCaller)
    \/ ActualRead(PickupCaller)
    \/ StlySelect(PickupCaller)
    \/ StlyRead(PickupCaller)

PickupSpec == PickupInit /\ [][PickupNext]_vars

(* ------------------ saveSnapshotData called on its own ----------------- *)
SaveCaller == << "save", 1 >>

\* a caller that awaits saveSnapshotData(snapshotId, rows) and answers 200
\* when it returns, 500 when it throws; before is the store at the call
SaveCall(snapshotId, rows, before) ==
    [Idle EXCEPT !.pc = "save", !.snap = snapshotId, !.rows = rows]
        @@ [snapshotId |-> snapshotId, before |-> before]

\* the store holds a completed seed and a snapshot that createSnapshotRecord
\* has just stored; the id given is that snapshot's or one the store lacks
SaveInit ==
    /\ isRunning = FALSE
    /\ \E h \in HotelIds, seedBytes \in { 1, 3 } :
          /\ snapshots = StoredSnapshot(SeedOfA, h, "seed.txt", seedBytes, TRUE,
                                        parseHistoryForecastFile(seedBytes, 100))
                       @@ (HourlyOfA :> NewSnapshot(h, "a.txt", BlobUrl(HourlyOfA, h, "a.txt"),
                                                    calculateFileHash(2), 100, FALSE))
          /\ dataRows = (SeedOfA :> DataRecords(parseHistoryForecastFile(seedBytes, 100), SeedOfA, h))
                       @@ (HourlyOfA :> << >>)
          /\ blobs = { [url |-> BlobUrl(SeedOfA, h, "seed.txt"), hotelId |-> h,
                        originalFilename |-> "seed.txt", bytes |-> seedBytes],
                       [url |-> BlobUrl(HourlyOfA, h, "a.txt"), hotelId |-> h,
                        originalFilename |-> "a.txt", bytes |-> 2] }
    /\ \E id \in { HourlyOfA, MissingId }, bytes \in 0..3 :
          proc = [p \in { SaveCaller } |->
                     SaveCall(id, IF bytes = 0 THEN << >> ELSE parseHistoryForecastFile(bytes, 100),
                              << snapshots, dataRows >>)]
    /\ processedEmails = {}
    /\ unread = {}
    /\ faults = 0
    /\ outageLost = {}
    /\ unmarked = {}

SaveNext ==
    \/ TxWrites(SaveCaller)
    \/ TxCommit(SaveCaller)
    \/ MarkInner(SaveCaller)

SaveSpec == SaveInit /\ [][SaveNext]_vars

\* saveSnapshotData and updateSeedActualsWithHistory at work on one store:
\* hotel hA has a completed seed, a completed hourly snapshot and a snapshot
\* that createSnapshotRecord has just stored; one caller saves the rows of the
\* new snapshot while another applies the overlay for a hotel.
PendingOfA == NewSnapshotId(<< "cycle", 2 >>, "b.txt")

StoreInit ==
    /\ isRunning = FALSE
    /\ \E days \in SeedLayouts :
          /\ snapshots = StoredSnapshot(SeedOfA, "hA", "seed.txt", 3, TRUE, StoredRows(days))
                       @@ StoredSnapshot(HourlyOfA, "hA", "a.txt", 2, FALSE, StoredRows(days))
                       @@ (PendingOfA :> NewSnapshot("hA", "b.txt", BlobUrl(PendingOfA, "hA", "b.txt"),
                                                     calculateFileHash(1), 100, FALSE))
          /\ dataRows = [s \in { SeedOfA, HourlyOfA, PendingOfA } |->
                            IF s = PendingOfA THEN << >>
                            ELSE DataRecords(StoredRows(days), s, "hA")]
    /\ \E h \in HotelIds, n \in { 0, 2, MaxHistoryRows }, shape \in InputShapes, bytes \in 0..3 :
          proc = (OverlayCaller :> OverlayCall(h, InputRows(n, shape), 1, dataRows, FALSE))
              @@ (SaveCaller :> SaveCall(PendingOfA,
                                         IF bytes = 0 THEN << >>
                                         ELSE parseHistoryForecastFile(bytes, 100),
                                         << snapshots, dataRows >>))
    /\ processedEmails = {}
    /\ blobs = { [url |-> BlobUrl(SeedOfA, "hA", "seed.txt"), hotelId |-> "hA",
                  originalFilename |-> "seed.txt", bytes |-> 3],
                 [url |-> BlobUrl(HourlyOfA, "hA", "a.txt"), hotelId |-> "hA",
                  originalFilename |-> "a.txt", bytes |-> 2],
                 [url |-> BlobUrl(PendingOfA, "hA", "b.txt"), hotelId |-> "hA",
                  originalFilename |-> "b.txt", bytes |-> 1] }
    /\ unread = {}
    /\ faults = 0
    /\ outageLost = {}
    /\ unmarked = {}

StoreNext ==
    \/ TxWrites(SaveCaller)
    \/ TxCommit(SaveCaller)
    \/ MarkInner(SaveCaller)
    \/ OverlayFindSeed(OverlayCaller)
    \/ OverlayFindRow(OverlayCaller)
    \/ OverlayUpdateRow(OverlayCaller)

StoreSpec == StoreInit /\ [][StoreNext]_vars

(* ----------------- parseHistoryForecastFile called on its own ---------- *)
ParserCaller == << "parser", 1 >>

\* lines with enough columns and every required field, over values of room
\* nights and revenue that parseNumericValue can return
FullLines ==
    { LineOf(MinColumns + 1, Text("Forecast"), DateText(d), nights, revenue, Num(1)) :
        d \in { << 1, 11, 25 >>, << 29, 2, 24 >> },
        nights \in { Num(10), Num(0), Num(0 - 2), Junk },
        revenue \in { Num(500), Num(0 - 100) } }
        \cup { Line(MinColumns + 2, "History", << 31, 12, 99 >>, 7, 700) }

\* lines that are too short, lack a required field or carry a stay date that
\* is none
FaultyLines ==
    { Line(n, "History", << 1, 11, 25 >>, 10, 500) : n \in { 1, 7, MinColumns } }
        \cup { Line(MinColumns + 1, "History", d, 10, 500) :
                  d \in { << 30, 2, 25 >>, << 29, 2, 25 >>, << 31, 4, 25 >>, << 0, 1, 25 >>,
                          << 1, 13, 25 >>, << 32, 1, 25 >>, << 1, 1, 0 >> } }
        \cup { LineOf(MinColumns + 1, Blank, DateText(<< 1, 11, 25 >>), Num(10), Num(500), Num(0)),
               LineOf(MinColumns + 1, Text("History"), Blank, Num(10), Num(500), Num(0)),
               LineOf(MinColumns + 1, Text("History"), Junk, Num(10), Num(500), Num(0)),
               LineOf(MinColumns + 1, Text("History"), DateText(<< 1, 11, 25 >>), Blank, Num(500), Num(0)) }

RECURSIVE FilesOf(_, _)
\* the files of at most n lines over a set of lines
FilesOf(lines, n) ==
    IF n = 0 THEN { << >> }
    ELSE FilesOf(lines, n - 1)
            \cup { Append(f, l) : f \in { g \in FilesOf(lines, n - 1) : Len(g) = n - 1 }, l \in lines }

\* a call of parseHistoryForecastFile(buffer, totalAvailableRooms)
ParserCall(lines, totalAvailableRooms) ==
    [pc |-> "parse", lines |-> lines, totalAvailableRooms |-> totalAvailableRooms,
     parsedRows |-> << >>]

ParserInit ==
    /\ isRunning = FALSE
    /\ \E lines \in FilesOf(FullLines \cup FaultyLines, MaxLines),
          rooms \in { 0 } \cup { h.totalAvailableRooms : h \in HotelTable } :
          proc = [p \in { ParserCaller } |-> ParserCall(lines, rooms)]
    /\ snapshots = << >>
    /\ dataRows = << >>
    /\ processedEmails = {}
    /\ blobs = {}
    /\ unread = {}
    /\ faults = 0
    /\ outageLost = {}
    /\ unmarked = {}

\* parseHistoryForecastFile runs to its return
ParseFile(p) ==
    LET l == proc[p] IN
    /\ l.pc = "parse"
    /\ Set(p, [l EXCEPT !.pc = "done",
                        !.parsedRows = parseLines(l.lines, l.totalAvailableRooms)])
    /\ UNCHANGED << isRunning, snapshots, dataRows, processedEmails, blobs, unread, faults,
                    outageLost, unmarked >>

ParserNext == ParseFile(ParserCaller)

ParserSpec == ParserInit /\ [][ParserNext]_vars

(* ------------- parseStayDate and formatDateToYYYYMMDD on their own ----- *)
DateCaller == << "date", 1 >>

RECURSIVE Digits(_)
\* String(n): the decimal digits of a natural number
Digits(n) == IF n < 10 THEN << n >> ELSE Append(Digits(n \div 10), n % 10)

\* padStart(2, '0')
padStart2(digits) == IF Len(digits) < 2 THEN << 0 >> \o digits ELSE digits

\* formatDateToYYYYMMDD: `${year}-${month}-${day}`, as the three groups of digits
formatDateToYYYYMMDD(date) ==
    << Digits(date[1]), padStart2(Digits(date[2])), padStart2(Digits(date[3])) >>

\* a call of parseStayDate on "DD/MM/YY Day"
DateCall(dmy) ==
    [pc |-> "parse", dmy |-> dmy, date |-> << >>, text |-> << >>, threw |-> FALSE,
     row |-> NullRow]

DateInit ==
    /\ isRunning = FALSE
    /\ \E day \in 0..32, month \in 0..13, year \in 0..99 :
          proc = [p \in { DateCaller } |-> DateCall(<< day, month, year >>)]
    /\ snapshots = << >>
    /\ dataRows = << >>
    /\ processedEmails = {}
    /\ blobs = {}
    /\ unread = {}
    /\ faults = 0
    /\ outageLost = {}
    /\ unmarked = {}

\* parseStayDate returns the date or throws
ParseDate(p) ==
    LET l == proc[p] IN
    /\ l.pc = "parse"
    /\ IF StayDateAccepted(l.dmy)
       THEN Set(p, [l EXCEPT !.pc = "parsed", !.date = parseStayDate(l.dmy)])
       ELSE Set(p, [l EXCEPT !.pc = "threw", !.threw = TRUE])
    /\ UNCHANGED << isRunning, snapshots, dataRows, processedEmails, blobs, unread, faults,
                    outageLost, unmarked >>

\* the date returned is formatted
FormatDate(p) ==
    LET l == proc[p] IN
    /\ l.pc = "parsed"
    /\ Set(p, [l EXCEPT !.pc = "formatted", !.text = formatDateToYYYYMMDD(l.date)])
    /\ UNCHANGED << isRunning, snapshots, dataRows, processedEmails, blobs, unread, faults,
                    outageLost, unmarked >>

\* parseLine is given a line that carries the date, with enough columns and
\* every other field
ParseDateLine(p) ==
    LET l == proc[p] IN
    /\ l.pc \in { "threw", "formatted" }
    /\ Set(p, [l EXCEPT !.pc = "done",
                        !.row = parseLine(Line(MinColumns + 1, "History", l.dmy, 10, 500), 0, 100)])
    /\ UNCHANGED << isRunning, snapshots, dataRows, processedEmails, blobs, unread, faults,
                    outageLost, unmarked >>

DateNext ==
    \/ ParseDate(DateCaller)
    \/ FormatDate(DateCaller)
    \/ ParseDateLine(DateCaller)

DateSpec == DateInit /\ [][DateNext]_vars

(* ------------------------------ properties ----------------------------- *)
Status(s) == snapshots[s].processingStatus

\* the process that created snapshot s
Creator(s) == << s[1], s[2] >>

\* the process that created s has left it: its handling of the file is over
Settled(s) == proc[Creator(s)].snap # s

Active(p) == proc[p].pc \notin { "idle", "skipped", "done" }

\* C1: in every reachable state no two snapshots carry the same content hash,
\* whatever their hotels, under every interleaving of cycles and seed uploads.
C1_HashUnique ==
    \A s, t \in DOMAIN snapshots : snapshots[s].fileHash = snapshots[t].fileHash => s = t

\* A seed upload passed its hash check, a cycle stored the same bytes in
\* between, and the seed's create was refused.
C1_Witness ==
    \E q \in SeedRequests, s \in DOMAIN snapshots :
        /\ proc[q].pc = "done" /\ proc[q].status = 500 /\ ~proc[q].faulted
        /\ ~snapshots[s].isSeedSnapshot
        /\ snapshots[s].fileHash = calculateFileHash(1)
        /\ \A t \in DOMAIN snapshots : ~snapshots[t].isSeedSnapshot

Stored(bytes) == \E s \in DOMAIN snapshots : snapshots[s].fileHash = calculateFileHash(bytes)

DuplicateSubmitted(p) ==
    /\ proc[p].pc = "checkHash"
    /\ IsTxt(proc[p].file.name)
    /\ Stored(proc[p].file.contentBytes)

\* C2: an attachment whose bytes are those of a stored snapshot (any status,
\* any hotel, any filename) is skipped: the step that handles it creates no
\* snapshot, inserts no row, uploads no blob and ends the handling of the
\* attachment, and when the lookup answers the error count is unchanged.
C2_DuplicateSkipped ==
    [][\A p \in Cycles :
          DuplicateSubmitted(p) /\ proc'[p] # proc[p] =>
              /\ snapshots' = snapshots
              /\ dataRows' = dataRows
              /\ blobs' = blobs
              /\ proc'[p].file # proc[p].file
              /\ proc'[p].pc \in { "checkHash", "isProcessed", "return" }
              /\ faults' = faults =>
                    proc'[p].summary.errors = proc[p].summary.errors]_vars

\* c.txt, from hotel hB, was skipped for the bytes of hA's a.txt: the cycle is
\* at the next attachment with no error and no snapshot of c.txt.
C2_Witness ==
    \E p \in Cycles :
        /\ proc[p].pc = "checkHash" /\ proc[p].file.name = "d.txt"
        /\ proc[p].summary.errors = 0
        /\ \E s \in DOMAIN snapshots :
              snapshots[s].originalFilename = "a.txt" /\ snapshots[s].hotelId = "hA"
        /\ \A s \in DOMAIN snapshots : snapshots[s].originalFilename # "c.txt"
        /\ \A b \in blobs : b.originalFilename # "c.txt"

\* C3: at most one cycle is active at any time; a trigger that fires while
\* isRunning is set only returns, and a skipped trigger never starts later.
C3_SingleFlight ==
    /\ [](/\ Cardinality({ p \in Cycles : Active(p) }) <= 1
          /\ \A p \in Cycles : Active(p) => isRunning)
    /\ [][\A p \in Cycles :
             /\ (proc[p].pc = "idle" /\ isRunning /\ proc'[p] # proc[p]) =>
                    /\ proc'[p] = [proc[p] EXCEPT !.pc = "skipped"]
                    /\ UNCHANGED << isRunning, snapshots, dataRows, processedEmails, blobs, unread >>
             /\ proc[p].pc = "skipped" => proc'[p] = proc[p]]_vars

\* a trigger was skipped while a cycle is at work
C3_Witness ==
    \E p, q \in Cycles : Active(p) /\ proc[p].pc = "upload" /\ proc[q].pc = "skipped"

Forward(a, b) ==
    \/ a = b
    \/ a = "PENDING" /\ b \in { "PROCESSING", "COMPLETED", "FAILED" }
    \/ a = "PROCESSING" /\ b \in { "COMPLETED", "FAILED" }

\* C4: the stored status of a snapshot only moves forward along
\* PENDING -> PROCESSING -> {COMPLETED | FAILED}: no step returns it to
\* PENDING and no step changes a COMPLETED or FAILED status.
C4_StatusForward ==
    [][\A s \in DOMAIN snapshots :
          s \in DOMAIN snapshots' => Forward(Status(s), snapshots'[s].processingStatus)]_vars

\* the transaction of a cycle has rolled back, saveSnapshotData has marked the
\* snapshot and the caller is about to mark it again
C4_Witness ==
    \E p \in Cycles :
        /\ proc[p].pc = "markOuter"
        /\ proc[p].snap \in DOMAIN snapshots
        /\ Status(proc[p].snap) = "FAILED"

\* the rows saveSnapshotData is given for snapshot s
ExpectedRows(s) ==
    DataRecords(parseHistoryForecastFile(snapshots[s].fileHash[2],
                                         snapshots[s].totalAvailableRoomsSnapshot),
                s, snapshots[s].hotelId)

\* C5: in every observable state a snapshot is COMPLETED with exactly the
\* given rows stored for it (and their count), or no row is stored for it.
C5_AllOrNothing ==
    \A s \in DOMAIN snapshots :
        IF Status(s) = "COMPLETED"
        THEN /\ dataRows[s] = ExpectedRows(s)
             /\ snapshots[s].rowCount = Len(dataRows[s])
             /\ snapshots[s].processed
        ELSE /\ dataRows[s] = << >>
             /\ snapshots[s].rowCount = 0
             /\ ~snapshots[s].processed

\* one saveSnapshotData has thrown with rows to store and none is stored,
\* another has returned and both rows of its file are stored
C5_Witness ==
    /\ \E p \in Procs :
          /\ proc[p].pc = "markInner" /\ proc[p].rows # << >>
          /\ dataRows[proc[p].snap] = << >>
    /\ \E t \in DOMAIN snapshots : Status(t) = "COMPLETED" /\ Len(dataRows[t]) = 2

C7_OnlyCallerMarks ==
    [][\A s \in DOMAIN snapshots :
          (Status(s) # "FAILED" /\ snapshots'[s].processingStatus = "FAILED") =>
              \E p \in Cycles :
                  proc[p].pc = "markOuter" /\ proc[p].snap = s /\ proc'[p] # proc[p]]_vars

\* C8: parsed rows are held only for a snapshot that is stored; a snapshot is
\* stored in PENDING with no rows; a stored snapshot is never removed and its
\* hotel, filename, storage reference and content hash never change.
C8_RecordKept ==
    /\ [](\A p \in Procs : proc[p].rows # << >> => proc[p].snap \in DOMAIN snapshots)
    /\ [][/\ \A s \in DOMAIN snapshots :
                /\ s \in DOMAIN snapshots'
                /\ snapshots'[s].hotelId = snapshots[s].hotelId
                /\ snapshots'[s].originalFilename = snapshots[s].originalFilename
                /\ snapshots'[s].blobUrl = snapshots[s].blobUrl
                /\ snapshots'[s].fileHash = snapshots[s].fileHash
          /\ \A s \in DOMAIN snapshots' \ DOMAIN snapshots :
                /\ snapshots'[s].processingStatus = "PENDING"
                /\ dataRows'[s] = << >>]_vars

\* phase 2 failed and the caller moved on: the record is there, with the blob
\* it refers to and the hash of the blob's bytes
C8_Witness ==
    \E s \in DOMAIN snapshots :
        /\ Settled(s) /\ Status(s) = "FAILED"
        /\ \E b \in blobs :
              /\ b.url = snapshots[s].blobUrl
              /\ b.hotelId = snapshots[s].hotelId
              /\ b.originalFilename = snapshots[s].originalFilename
              /\ calculateFileHash(b.bytes) = snapshots[s].fileHash

\* a file whose rows createMany accepts
WellFormed(bytes) == KeysDistinct(DataRecords(parseHistoryForecastFile(bytes, 0), << >>, ""))

\* C9: the bytes of a well-formed attachment whose phase 1 or 2 met an
\* unavailable store are stored as a COMPLETED snapshot once a later cycle has
\* run without meeting an error of the infrastructure.
C9_RetriedByLaterCycle ==
    \A x \in outageLost, k \in 1..MaxTriggers :
        (/\ WellFormed(x.fileHash[2])
         /\ k > x.cycle
         /\ proc[<< "cycle", k >>].pc = "done"
         /\ ~proc[<< "cycle", k >>].faulted) =>
            \E s \in DOMAIN snapshots :
                snapshots[s].fileHash = x.fileHash /\ Status(s) = "COMPLETED"

\* C10: a failure on a mail item or an attachment never aborts the loop: a
\* step of a cycle stays on its item, moves to the next attachment of the
\* mail, leaves a mail only after its last attachment and returns only after
\* the last mail of the fetched list; and every failure is counted once.
C10_LoopGoesOn ==
    /\ [](\A p \in Cycles :
            /\ Len(proc[p].summary.errorDetails) = proc[p].summary.errors
            /\ IF proc[p].pc \in { "markInner", "markOuter" }
               THEN proc[p].failures = proc[p].summary.errors + 1
               ELSE proc[p].failures = proc[p].summary.errors)
    /\ [][\A p \in Cycles :
             LET l == proc[p]
                 n == proc'[p]
             IN  (l.pc \notin { "idle", "skipped", "fetch", "return", "done" } /\ n # l) =>
                     /\ n.emails = l.emails
                     /\ n.summary.errors >= l.summary.errors
                     /\ \/ /\ n.pc = "return"
                           /\ l.mi = Len(l.emails) /\ l.ai = Len(l.atts)
                        \/ /\ n.pc \notin { "return", "isProcessed" }
                           /\ n.mi = l.mi /\ n.ai = l.ai /\ n.file = l.file
                        \/ /\ n.pc = "checkHash"
                           /\ n.mi = l.mi /\ n.ai = l.ai + 1
                           /\ n.atts = MailById(l.emails[l.mi]).atts
                           /\ n.ai <= Len(n.atts) /\ n.file = n.atts[n.ai]
                        \/ /\ n.pc = "isProcessed"
                           /\ n.mi = l.mi + 1 /\ n.ai = 0
                           /\ l.ai = Len(l.atts)]_vars

\* the first attachment of a mail failed, the error is counted and the cycle
\* is at the second attachment
C10_Witness ==
    \E p \in Cycles :
        /\ proc[p].pc = "checkHash" /\ proc[p].mi = 1 /\ proc[p].ai = 2
        /\ proc[p].summary.errors = 1 /\ proc[p].failures = 1


\* the snapshots registered for the attachments of mail item m
FromMail(s, m) ==
    /\ s[1] = "cycle"
    /\ \E i \in 1..Len(MailById(m).atts) : MailById(m).atts[i].name = s[3]

\* C11: a record for a message id is created only when every snapshot
\* registered for an attachment of that mail item is COMPLETED; there is at
\* most one record per message id and a record, once written, stays as it is.
C11_RecordedAfterFullSuccess ==
    /\ [](\A r1, r2 \in processedEmails : r1.messageId = r2.messageId => r1 = r2)
    /\ [][/\ processedEmails \subseteq processedEmails'
          /\ \A r \in processedEmails' \ processedEmails :
                \A s \in DOMAIN snapshots' :
                    FromMail(s, r.messageId) => snapshots'[s].processingStatus = "COMPLETED"]_vars

\* C12: the checks isEmailProcessed and checkDuplicateByHash write nothing,
\* and when the store throws during a check the handling of the checked item
\* ends in that step: no blob, no snapshot, no row, no processed-mail record
\* and no change of the mail's read flag; a cycle counts one error and goes to
\* the next item, a seed upload answers 500.
C12_ChecksFailClosed ==
    [][\A p \in Procs :
          LET l == proc[p]
              n == proc'[p]
          IN  (l.pc \in { "isProcessed", "checkHash", "seedCheckHash" } /\ n # l) =>
                  /\ UNCHANGED << snapshots, dataRows, processedEmails, blobs, unread >>
                  /\ faults' # faults =>
                        /\ l.pc = "isProcessed" =>
                              /\ n.pc \in { "isProcessed", "return" }
                              /\ n.pc = "isProcessed" => n.mi = l.mi + 1
                              /\ n.summary.errors = l.summary.errors + 1
                        /\ l.pc = "checkHash" =>
                              /\ n.pc \in { "checkHash", "isProcessed", "return" }
                              /\ n.file # l.file
                              /\ n.summary.errors = l.summary.errors + 1
                        /\ l.pc = "seedCheckHash" =>
                              n.pc = "done" /\ n.status = 500]_vars

\* the store threw in the hash check of a.txt: the cycle is at b.txt, one
\* error counted, nothing stored and the mail still unread
C12_Witness ==
    \E p \in Cycles :
        /\ proc[p].threwAt = "checkHash" /\ proc[p].pc = "checkHash"
        /\ proc[p].file.name = "b.txt" /\ proc[p].summary.errors = 1
        /\ blobs = {} /\ snapshots = << >> /\ processedEmails = {}
        /\ "m1" \in unread

\* the seed snapshots of a hotel
SeedsOf(hotelId) == findExistingSeed(snapshots, hotelId)

\* C13: in every reachable state each hotel has at most one snapshot flagged
\* as seed, under any interleaving of seed-upload requests for the same hotel.
C13_OneSeedPerHotel ==
    \A h \in HotelIds : Cardinality(SeedsOf(h)) <= 1

\* the hotel has a snapshot flagged as seed, whatever its status
HasSeed(hotelId) ==
    \E s \in DOMAIN snapshots : snapshots[s].hotelId = hotelId /\ snapshots[s].isSeedSnapshot

\* C14: a seed upload that looks for an existing seed while its hotel has a
\* seed snapshot, whatever that seed's status, is answered with an error
\* (400, or 500 when the lookup throws) in that step, and the step uploads no
\* blob, creates no snapshot and inserts or changes no row; a seed snapshot,
\* once there, stays a seed snapshot of its hotel.
C14_SecondSeedRejected ==
    /\ [][\A p \in DOMAIN proc :
             (/\ proc[p].pc = "seedFindExisting" /\ proc'[p] # proc[p]
              /\ HasSeed(proc[p].hotel.id)) =>
                 /\ proc'[p].pc = "done"
                 /\ proc'[p].status \in { 400, 500 }
                 /\ proc'[p].status = 400 => proc'[p].err = SeedExists
                 /\ UNCHANGED << snapshots, dataRows, blobs >>]_vars
    /\ [][\A s \in DOMAIN snapshots :
             /\ s \in DOMAIN snapshots'
             /\ snapshots'[s].isSeedSnapshot = snapshots[s].isSeedSnapshot
             /\ snapshots'[s].hotelId = snapshots[s].hotelId]_vars

\* a second upload was refused while the hotel's only seed was not COMPLETED
C14_Witness ==
    \E q \in DOMAIN proc, s \in DOMAIN snapshots :
        /\ proc[q].pc = "done" /\ proc[q].status = 400 /\ proc[q].err = SeedExists
        /\ snapshots[s].isSeedSnapshot /\ snapshots[s].processingStatus # "COMPLETED"
        /\ DOMAIN snapshots = { s }
        /\ Cardinality(blobs) = 1

\* C15: when a cycle has brought a non-seed snapshot with HISTORY rows to
\* COMPLETED, the seed overlay has been applied by the end of that cycle: every
\* HISTORY row of the hotel's completed seed whose stay date is among the last
\* HISTORY rows of the new snapshot carries the figures of the new snapshot.
C15_OverlayInSameCycle ==
    \A p \in Cycles :
        proc[p].pc = "return" =>
            \A s \in DOMAIN snapshots :
                (/\ Creator(s) = p /\ ~snapshots[s].isSeedSnapshot
                 /\ snapshots[s].processingStatus = "COMPLETED"
                 /\ filterHistory(dataRows[s]) # << >>) =>
                    \A t \in findSeedSnapshot(snapshots, snapshots[s].hotelId) :
                        \A j \in 1..Len(historyData(dataRows[s])) :
                            LET r == historyData(dataRows[s])[j] IN
                            \A i \in findExistingRow(dataRows, t, r.stayDate) :
                                /\ dataRows[t][i].roomNights = r.roomNights
                                /\ dataRows[t][i].roomRevenue = r.roomRevenue

\* the state of the overlay call
Overlay == proc[OverlayCaller]

\* C16: the overlay never inserts or deletes a row and never changes a key of
\* a row; a row it changes is a HISTORY row of a seed snapshot of the hotel
\* whose stay date is the stay date of one of the supplied rows; the snapshot
\* table is not written.
C16_OverlayFrame ==
    [][/\ DOMAIN dataRows' = DOMAIN dataRows
       /\ \A s \in DOMAIN dataRows :
             /\ Len(dataRows'[s]) = Len(dataRows[s])
             /\ \A i \in 1..Len(dataRows[s]) :
                   LET old == dataRows[s][i]
                       new == dataRows'[s][i]
                   IN  /\ new.stayDate = old.stayDate /\ new.dataType = old.dataType
                       /\ new.snapshotId = old.snapshotId /\ new.hotelId = old.hotelId
                       /\ new # old =>
                             /\ snapshots[s].isSeedSnapshot
                             /\ snapshots[s].hotelId = Overlay.hotelId
                             /\ old.dataType = "HISTORY"
                             /\ \E j \in 1..Len(Overlay.historyRows) :
                                   Overlay.historyRows[j].stayDate = old.stayDate
       /\ snapshots' = snapshots]_vars

\* a row of the seed of hotel hA was overwritten while the rows of the hourly
\* snapshot of the same hotel kept their figures
C16_Witness ==
    /\ Overlay.updatedCount > 0
    /\ dataRows[SeedOfA] # Overlay.before[SeedOfA]
    /\ dataRows[HourlyOfA] = Overlay.before[HourlyOfA]
    /\ filterHistory(dataRows[HourlyOfA]) # << >>

\* the supplied rows the overlay has to use: the HISTORY rows with fewer than
\* OverlayRows HISTORY rows after them
Used(rows) ==
    { j \in 1..Len(rows) :
        /\ rows[j].dataType = "HISTORY"
        /\ Cardinality({ k \in (j + 1)..Len(rows) : rows[k].dataType = "HISTORY" }) < OverlayRows }

Max(S) == CHOOSE x \in S : \A y \in S : y <= x

\* C17: after a call that met no error and found the seed, a HISTORY row of the
\* seed whose stay date is that of one of the final 7 HISTORY rows supplied
\* carries the figures of the last such row, and every other row of the seed is
\* as it was before the call: earlier HISTORY rows and FORECAST rows change nothing.
C17_LastSevenOnly ==
    (Overlay.pc = "returned" /\ ~Overlay.faulted /\ Overlay.seedSnapshot # << >>) =>
        \A i \in 1..Len(dataRows[Overlay.seedSnapshot]) :
            LET old == Overlay.before[Overlay.seedSnapshot][i]
                new == dataRows[Overlay.seedSnapshot][i]
                rows == Overlay.historyRows
                matching == { j \in Used(rows) : rows[j].stayDate = old.stayDate }
            IN  IF old.dataType = "HISTORY" /\ matching # {}
                THEN new = [old EXCEPT !.roomNights = rows[Max(matching)].roomNights,
                                       !.roomRevenue = rows[Max(matching)].roomRevenue]
                ELSE new = old

\* more than 7 HISTORY rows were supplied: a row of the seed whose stay date
\* is only among the earlier ones is as before, another one was overwritten
C17_Witness ==
    /\ Overlay.pc = "returned" /\ ~Overlay.faulted /\ Overlay.seedSnapshot # << >>
    /\ Len(filterHistory(Overlay.historyRows)) > OverlayRows
    /\ \E i, k \in 1..Len(dataRows[Overlay.seedSnapshot]) :
          /\ dataRows[Overlay.seedSnapshot][i] = Overlay.before[Overlay.seedSnapshot][i]
          /\ dataRows[Overlay.seedSnapshot][i].dataType = "HISTORY"
          /\ \E j \in 1..Len(Overlay.historyRows) :
                /\ Overlay.historyRows[j].dataType = "HISTORY"
                /\ Overlay.historyRows[j].stayDate = dataRows[Overlay.seedSnapshot][i].stayDate
          /\ dataRows[Overlay.seedSnapshot][k] # Overlay.before[Overlay.seedSnapshot][k]

C19_OverlaySwallowsErrors ==
    [][/\ faults' # faults =>
             /\ proc'[OverlayCaller].pc = "returned"
             /\ ~proc'[OverlayCaller].thrown
             /\ dataRows' = dataRows
       /\ snapshots' = snapshots]_vars

\* the update of a row threw after an earlier row was updated, and the call
\* returned
C19_Witness ==
    /\ Overlay.pc = "returned" /\ Overlay.threwAt = "updateRow" /\ ~Overlay.thrown
    /\ Overlay.updatedCount > 0

\* the state of the comparison request
Pickup == proc[PickupCaller]

\* C20: for two snapshots of the hotel, the request with the ids (A, B) and
\* the request with the ids (B, A), both answered, give the same answer: the
\* same baseline, which is not later than the current one, the same current
\* and the same pickup values and flags.
C20_SwapInvariant ==
    (/\ Pickup.pc = "done" /\ Pickup.call = 2
     /\ Pickup.status = 200 /\ Pickup.first.status = 200) =>
        /\ Pickup.body = Pickup.first.body
        /\ snapshots[Pickup.body.snapshot1].snapshotTime
               <= snapshots[Pickup.body.snapshot2].snapshotTime

\* C21: every snapshot a comparison uses as a side is COMPLETED.
C21_OnlyCompletedCompared ==
    (Pickup.pc \in { "read", "readActual", "readStly" }
        \/ (Pickup.pc = "done" /\ Pickup.status = 200)) =>
        /\ snapshots[Pickup.snapshot1].processingStatus = "COMPLETED"
        /\ snapshots[Pickup.snapshot2].processingStatus = "COMPLETED"

\* the periodic snapshots of a hotel that completed
Periodic(hotelId) ==
    { s \in DOMAIN snapshots : /\ snapshots[s].hotelId = hotelId
                               /\ ~snapshots[s].isSeedSnapshot
                               /\ snapshots[s].processed
                               /\ snapshots[s].processingStatus = "COMPLETED" }

\* the sides are the latest two periodic completed snapshots of the hotel
LatestTwoPeriodic ==
    /\ { Pickup.snapshot1, Pickup.snapshot2 } \subseteq Periodic(Pickup.hotelId)
    /\ Pickup.snapshot1 # Pickup.snapshot2
    /\ snapshots[Pickup.snapshot1].snapshotTime <= snapshots[Pickup.snapshot2].snapshotTime
    /\ \A o \in Periodic(Pickup.hotelId) \ { Pickup.snapshot1, Pickup.snapshot2 } :
          snapshots[o].snapshotTime <= snapshots[Pickup.snapshot1].snapshotTime

\* C22 as stated: in every pickup comparison the sides are the latest two
\* periodic completed snapshots of the hotel, neither of them a seed.
C22_PickupNeverSeed ==
    (/\ Pickup.route \in { "pickup", "daily" }
     /\ Pickup.pc = "read" \/ (Pickup.pc = "done" /\ Pickup.status = 200)) =>
        LatestTwoPeriodic

\* C22: in a pickup request that does not name both snapshots the sides are
\* the latest two periodic completed snapshots of the hotel by snapshot time,
\* neither of them a seed, and the request is rejected when the hotel has
\* fewer than two of them.
C22_DefaultPickup ==
    (/\ Pickup.route \in { "pickup", "daily" }
     /\ Pickup.snapshot1Id = NoId \/ Pickup.snapshot2Id = NoId) =>
        /\ (Pickup.pc = "read" \/ (Pickup.pc = "done" /\ Pickup.status = 200)) =>
              LatestTwoPeriodic
        /\ Cardinality(Periodic(Pickup.hotelId)) < 2 =>
              /\ Pickup.pc # "read"
              /\ Pickup.pc = "done" => (Pickup.status = 500 /\ Pickup.faulted) \/ Pickup.status = 400

\* a pickup without ids was answered for hotel hA, whose seed and failed
\* snapshot were left out
C22_Witness ==
    /\ Pickup.route = "pickup" /\ Pickup.snapshot1Id = NoId /\ Pickup.snapshot2Id = NoId
    /\ Pickup.pc = "done" /\ Pickup.status = 200
    /\ Pickup.snapshot1 = EarlierOfA /\ Pickup.snapshot2 = LaterOfA
    /\ snapshots[SeedOfA].snapshotTime = snapshots[EarlierOfA].snapshotTime
    /\ snapshots[FailedOfA].snapshotTime = snapshots[LaterOfA].snapshotTime

\* the distance in days between a snapshot's time and a date
Distance(s, date) ==
    IF snapshots[s].snapshotTime >= date THEN snapshots[s].snapshotTime - date
    ELSE date - snapshots[s].snapshotTime

\* the periodic completed snapshots of the hotel within 7 days of the date
InWindow(hotelId, date) == { s \in Periodic(hotelId) : Distance(s, date) <= StlyWindow }

\* C23: the baseline of an STLY comparison is a periodic completed snapshot of
\* the hotel within 7 days of the date one year before the target date, and no
\* other such snapshot is nearer to that date; when there is none the request
\* is answered 404.
C23_StlyNearest ==
    Pickup.route = "stly" =>
        /\ (Pickup.pc = "readStly" \/ (Pickup.pc = "done" /\ Pickup.status = 200)) =>
              /\ Pickup.snapshot1 \in InWindow(Pickup.hotelId, Pickup.lastYearDate)
              /\ \A o \in InWindow(Pickup.hotelId, Pickup.lastYearDate) :
                    Distance(Pickup.snapshot1, Pickup.lastYearDate)
                        <= Distance(o, Pickup.lastYearDate)
        /\ (InWindow(Pickup.hotelId, Pickup.lastYearDate) = {} /\ Pickup.pc = "done") =>
              Pickup.status = 404 \/ (Pickup.status = 500 /\ Pickup.faulted)

\* revenue / rooms of a set of rows, in hundredths, 0 when the rooms are not positive
AdrOfSums(rows) ==
    IF SumOf(rows, "roomNights") > 0
    THEN << SumOf(rows, "roomRevenue"), SumOf(rows, "roomNights") >>
    ELSE << 0, 1 >>

\* a pickup triple states the differences of the two sides' sums
PickupFromSums(pu, baseline, current) ==
    /\ pu.puRooms.value = SumOf(current, "roomNights") - SumOf(baseline, "roomNights")
    /\ pu.puRevenue.value = SumOf(current, "roomRevenue") - SumOf(baseline, "roomRevenue")
    /\ pu.puADR.value =
          RoundDiv(100 * (AdrOfSums(current)[1] * AdrOfSums(baseline)[2]
                            - AdrOfSums(baseline)[1] * AdrOfSums(current)[2]),
                   AdrOfSums(current)[2] * AdrOfSums(baseline)[2])

\* C24: in every answer of the pickup routes, for every stay date and for the
\* month-to-date and every monthly bucket, pickup rooms and pickup revenue are
\* the current side's sum less the baseline's, and pickup ADR is the difference
\* of the two sides' summed revenue over summed rooms (0 for a side without
\* rooms), never an average of the rows' ADRs.
C24_PickupFromSums ==
    (Pickup.route \in { "pickup", "daily" } /\ Pickup.pc = "done" /\ Pickup.status = 200) =>
        LET baseline == forecastData(dataRows, Pickup.snapshot1)
            current == forecastData(dataRows, Pickup.snapshot2)
            rows == Pickup.body.pickup
        IN  IF Pickup.route = "daily"
            THEN /\ DOMAIN rows = { r.stayDate : r \in baseline \cup current }
                 /\ \A d \in DOMAIN rows :
                       PickupFromSums(rows[d].pickup, { r \in baseline : r.stayDate = d },
                                      { r \in current : r.stayDate = d })
            ELSE /\ PickupFromSums(rows.mtd.pickup, mtdData(baseline), mtdData(current))
                 /\ DOMAIN rows.monthly = { monthKey(r.stayDate) : r \in baseline \cup current }
                 /\ \A m \in DOMAIN rows.monthly :
                       PickupFromSums(rows.monthly[m].pickup,
                                      { r \in baseline : monthKey(r.stayDate) = m },
                                      { r \in current : monthKey(r.stayDate) = m })

\* the daily answer for rooms 30 and 38 with revenue 6000 and 9500: pickup
\* rooms 8, ADR 200 and 250, pickup ADR 50.00
C24_Witness ==
    /\ Pickup.pc = "done" /\ Pickup.status = 200
    /\ Pickup.snapshot1 = EarlierOfA /\ Pickup.snapshot2 = LaterOfA
    /\ Pickup.route = "daily"
    /\ << 2025, 11, 2 >> \in DOMAIN Pickup.body.pickup
    /\ LET row == Pickup.body.pickup[<< 2025, 11, 2 >>] IN
          /\ row.pickup.puRooms.value = 8
          /\ row.pickup.puRevenue.value = 3500
          /\ row.snapshot1.adr = << 6000, 30 >> /\ row.snapshot2.adr = << 9500, 38 >>
          /\ row.pickup.puADR.value = 5000

\* two rows of a sequence carry the same stay date and data type
RepeatsKey(rows) ==
    \E i, j \in 1..Len(rows) :
        i # j /\ rows[i].stayDate = rows[j].stayDate /\ rows[i].dataType = rows[j].dataType

\* the rows the parser yields for the file of snapshot s
ParsedRows(s) ==
    parseHistoryForecastFile(snapshots[s].fileHash[2], snapshots[s].totalAvailableRoomsSnapshot)

Save == proc[SaveCaller]

\* C26: saveSnapshotData called with the id of no stored snapshot throws, and
\* at no point of the call is a row inserted or a snapshot created or changed.
C26_MissingSnapshotRejected ==
    Save.snapshotId \notin DOMAIN Save.before[1] =>
        /\ snapshots = Save.before[1]
        /\ dataRows = Save.before[2]
        /\ Save.pc \in { "save", "markInner", "done" }
        /\ Save.pc = "done" => Save.status = 500
        /\ (Save.pc = "markInner" /\ ~Save.faulted) => Save.err = NotFound

\* the call with an unknown id has thrown, with no store error on the way
C26_Witness ==
    /\ Save.snapshotId = MissingId /\ MissingId \notin DOMAIN snapshots
    /\ Save.pc = "done" /\ Save.status = 500 /\ ~Save.faulted
    /\ snapshots[HourlyOfA].processingStatus = "PENDING"

Parser == proc[ParserCaller]

\* the row the parser returned for the line at position i of the file, as a
\* set of at most one row
RowsOfLine(i) ==
    { Parser.parsedRows[k] : k \in { j \in 1..Len(Parser.parsedRows) :
                                        Parser.parsedRows[j].rowIndex = i - 1 } }

\* a line of the file, counted in full, has every required field at the
\* position after its first column, and a stay date parseStayDate accepts
FieldsPresent(line) ==
    /\ Len(line) >= 4
    /\ line[2] # Blank /\ line[3] # Blank /\ line[4] # Blank
    /\ line[3][1] = "date"
    /\ StayDateAccepted(<< line[3][2], line[3][3], line[3][4] >>)

C28_MalformedLinesSkipped ==
    Parser.pc = "done" =>
        /\ \A i \in 1..Len(Parser.lines) :
              Cardinality(RowsOfLine(i)) =
                  IF Len(Parser.lines[i]) - 1 >= MinColumns /\ FieldsPresent(Parser.lines[i])
                  THEN 1 ELSE 0
        /\ \A k \in 1..Len(Parser.parsedRows) :
              /\ Parser.parsedRows[k].rowIndex \in 0..(Len(Parser.lines) - 1)
              /\ k > 1 => Parser.parsedRows[k - 1].rowIndex < Parser.parsedRows[k].rowIndex

\* the first line of the file was skipped for its stay date and the second
\* line gave the only row
C28_Witness ==
    /\ Parser.pc = "done"
    /\ Len(Parser.lines) = 2
    /\ Parser.lines[1] = Line(MinColumns + 1, "History", << 30, 2, 25 >>, 10, 500)
    /\ Len(Parser.parsedRows) = 1
    /\ Parser.parsedRows[1].rowIndex = 1

\* two fractions << numerator, denominator >> are the same number
SameNumber(a, b) == a[1] * b[2] = b[1] * a[2]

\* C29: for every parsed row ADR is revenue / roomNights when roomNights > 0
\* and 0 otherwise, RevPAR is revenue / availableRooms when availableRooms > 0
\* and 0 otherwise, and occupancy is 0 when availableRooms is 0.
C29_DerivedMetrics ==
    Parser.pc = "done" =>
        \A k \in 1..Len(Parser.parsedRows) :
            LET r == Parser.parsedRows[k] IN
            /\ SameNumber(r.adr, IF r.roomNights > 0 THEN << r.roomRevenue, r.roomNights >>
                                 ELSE << 0, 1 >>)
            /\ SameNumber(r.revPAR, IF Parser.totalAvailableRooms > 0
                                    THEN << r.roomRevenue, Parser.totalAvailableRooms >>
                                    ELSE << 0, 1 >>)
            /\ Parser.totalAvailableRooms = 0 => SameNumber(r.occupancyPercent, << 0, 1 >>)

Date == proc[DateCaller]

RECURSIVE ValueOf(_)
\* the number a sequence of decimal digits writes
ValueOf(digits) ==
    IF digits = << >> THEN 0
    ELSE 10 * ValueOf(SubSeq(digits, 1, Len(digits) - 1)) + digits[Len(digits)]

\* day, month and two-digit year read back from the formatted text
ReadBack(text) ==
    << ValueOf(text[3]), ValueOf(text[2]),
       ValueOf(SubSeq(text[1], Len(text[1]) - 1, Len(text[1]))) >>

\* C30: for every calendar date DD/MM/YY from 01/01/00 to 31/12/99
\* parseStayDate returns the date of day DD, month MM and year 2000 + YY, and
\* the day, month and year of the formatted result parse to the same date.
C30_StayDateRoundTrip ==
    (/\ Date.dmy[2] \in 1..12
     /\ Date.dmy[1] \in 1..DaysInMonth(2000 + Date.dmy[3], Date.dmy[2])) =>
        /\ ~Date.threw
        /\ Date.pc \in { "parsed", "formatted" } =>
              Date.date = << 2000 + Date.dmy[3], Date.dmy[2], Date.dmy[1] >>
        /\ Date.pc = "formatted" =>
              /\ ReadBack(Date.text) = Date.dmy
              /\ StayDateAccepted(ReadBack(Date.text))
              /\ parseStayDate(ReadBack(Date.text)) = Date.date

\* C31: parseStayDate throws for every DD/MM/YY whose month is outside 1..12
\* or whose day is outside the length of that month in the year 2000 + YY,
\* and parseLine yields no row for a line that carries such a date.
C31_InvalidDateRejected ==
    ~(/\ Date.dmy[2] \in 1..12
      /\ Date.dmy[1] \in 1..DaysInMonth(2000 + Date.dmy[3], Date.dmy[2])) =>
        /\ Date.pc \in { "parse", "threw", "done" }
        /\ Date.pc # "parse" => Date.threw
        /\ Date.date = << >>
        /\ Date.row = NullRow

\* 29 February of a year that is no leap year was refused and its line gave
\* no row, in a year whose February the parser accepts up to the 28th
C31_Witness ==
    /\ Date.dmy = << 29, 2, 25 >>
    /\ Date.pc = "done" /\ Date.threw /\ Date.row = NullRow

\* C32: the rows of a COMPLETED snapshot are never added to, removed or
\* reordered by any step; the rows of a non-seed snapshot are the same after
\* every step, and a row of a seed snapshot that a step changes is a HISTORY
\* row that keeps its keys and differs in its figures only.
C32_CommittedRowsKept ==
    [][\A s \in DOMAIN snapshots :
          Status(s) = "COMPLETED" =>
              /\ s \in DOMAIN dataRows'
              /\ Len(dataRows'[s]) = Len(dataRows[s])
              /\ ~snapshots[s].isSeedSnapshot => dataRows'[s] = dataRows[s]
              /\ \A i \in 1..Len(dataRows[s]) :
                    LET old == dataRows[s][i]
                        new == dataRows'[s][i]
                    IN  new # old =>
                            /\ snapshots[s].isSeedSnapshot
                            /\ old.dataType = "HISTORY"
                            /\ new = [old EXCEPT !.roomNights = new.roomNights,
                                                 !.roomRevenue = new.roomRevenue]]_vars

\* the rows of the new snapshot were committed and the overlay overwrote a row
\* of the seed, while the rows of the hourly snapshot are those of the start
C32_Witness ==
    /\ Status(PendingOfA) = "COMPLETED" /\ dataRows[PendingOfA] # << >>
    /\ Overlay.updatedCount > 0
    /\ dataRows[SeedOfA] # Overlay.before[SeedOfA]
    /\ dataRows[HourlyOfA] = Overlay.before[HourlyOfA]
    /\ dataRows[HourlyOfA] # << >>

\* the blob that cycle p has uploaded for the attachment it is handling
Uploaded(p) ==
    \E b \in blobs : b.url = proc[p].blobUrl /\ b.bytes = proc[p].file.contentBytes

C34_UnreadAfterCreateFails ==
    [][\A p \in Cycles :
          (proc[p].pc = "create" /\ proc'[p] # proc[p] /\ faults' # faults) =>
              /\ proc'[p].pc # "save"
              /\ proc[p].emails[proc[p].mi] \in unread']_vars

\* C35: in every reachable state each stored row carries the id of the
\* snapshot it is stored for and the hotel id of that snapshot.
C35_RowsCarryHotelOfSnapshot ==
    \A s \in DOMAIN dataRows :
        /\ s \in DOMAIN snapshots
        /\ \A i \in 1..Len(dataRows[s]) :
              /\ dataRows[s][i].snapshotId = s
              /\ dataRows[s][i].hotelId = snapshots[s].hotelId

\* rows are stored for snapshots of two hotels, one of them a seed
C35_Witness ==
    \E s, t \in DOMAIN snapshots :
        /\ snapshots[s].hotelId # snapshots[t].hotelId
        /\ dataRows[s] # << >> /\ dataRows[t] # << >>
        /\ snapshots[s].isSeedSnapshot /\ ~snapshots[t].isSeedSnapshot

\* C36: the step that ends a cycle, returned or thrown, clears isRunning; a
\* trigger that fires while the flag is clear starts a cycle; the flag is set
\* only while some cycle has not ended; and, every awaited call settling, a
\* flag that is set is cleared again.
C36_FlagClearedAtEnd ==
    /\ [](isRunning => \E p \in Cycles : Active(p))
    /\ [][\A p \in Cycles :
             /\ (Active(p) /\ ~Active(p)') => ~isRunning'
             /\ (proc[p].pc = "idle" /\ ~isRunning /\ proc'[p] # proc[p]) =>
                    proc'[p].pc = "fetch" /\ isRunning']_vars
    /\ (isRunning ~> ~isRunning)

\* the first cycle ended by the throw of the fetch of the mail list, nothing
\* was read or stored, and the second trigger has started a cycle
C36_Witness ==
    /\ proc[<< "cycle", 1 >>].pc = "done" /\ proc[<< "cycle", 1 >>].faulted
    /\ faults = 1
    /\ unread = { Mailbox[i].messageId : i \in 1..Len(Mailbox) }
    /\ Cardinality(blobs) = 1
    /\ proc[<< "cycle", 2 >>].pc = "fetch" /\ isRunning

\* C37: in every reachable state a snapshot is flagged processed exactly when
\* its status is COMPLETED, and the rowCount of a COMPLETED snapshot is the
\* number of rows stored for it.
C37_ProcessedIffCompleted ==
    \A s \in DOMAIN snapshots :
        /\ snapshots[s].processed <=> (Status(s) = "COMPLETED")
        /\ Status(s) = "COMPLETED" => snapshots[s].rowCount = Len(dataRows[s])

\* saveSnapshotData has returned for a file that yielded no row: the snapshot
\* is COMPLETED with rowCount 0 and no row, beside a seed that has rows
C37_Witness ==
    /\ Save.pc = "done" /\ Save.rows = << >>
    /\ Status(HourlyOfA) = "COMPLETED" /\ snapshots[HourlyOfA].processed
    /\ snapshots[HourlyOfA].rowCount = 0 /\ dataRows[HourlyOfA] = << >>
    /\ snapshots[SeedOfA].rowCount > 0

\* the names of the attachments of the messages of SkippedMail
SkippedNames ==
    UNION { { SkippedMail[i].atts[j].name : j \in 1..Len(SkippedMail[i].atts) } :
            i \in 1..Len(SkippedMail) }

\* C39: for a mail item that is skipped and for an attachment that is no .txt
\* file nothing is written: no blob and no snapshot (hence no row) exists for
\* it, no record of the message is created, an unread skipped message stays
\* unread, and the steps that decide the skip change nothing in the store.
C39_SkippedWritesNothing ==
    /\ [](/\ \A b \in blobs : b.originalFilename \notin SkippedNames
          /\ \A s \in DOMAIN snapshots : snapshots[s].originalFilename \notin SkippedNames
          /\ \A s \in DOMAIN dataRows : s \in DOMAIN snapshots
          /\ \A r \in processedEmails :
                r.messageId \in SkippedIds => r = [messageId |-> "m0", fileHash |-> calculateFileHash(3)])
    /\ [][/\ \A m \in SkippedIds : m \in unread => m \in unread'
          /\ \A p \in Cycles :
                (/\ proc'[p] # proc[p]
                 /\ \/ proc'[p].summary.skippedEmails # proc[p].summary.skippedEmails
                    \/ proc[p].pc = "checkHash" /\ ~IsTxt(proc[p].file.name)) =>
                       UNCHANGED << snapshots, dataRows, processedEmails, blobs, unread >>]_vars

\* the first cycle has gone through the folder: four messages were skipped,
\* the attachment of m6 was passed over, all five are still unread, and the
\* files of m2 were uploaded
C39_Witness ==
    /\ proc[<< "cycle", 1 >>].pc = "return"
    /\ proc[<< "cycle", 1 >>].summary.skippedEmails = 4
    /\ proc[<< "cycle", 1 >>].summary.totalEmails = 6
    /\ SkippedIds \subseteq unread /\ "m2" \notin unread
    /\ Cardinality(blobs) = 2 /\ DOMAIN snapshots # {}

\* the snapshots that cycle p registered and that are COMPLETED
CompletedBy(p) == { s \in DOMAIN snapshots : Creator(s) = p /\ Status(s) = "COMPLETED" }

\* C38: in the summary of a cycle, and so in the one it returns, errors is the
\* number of error messages, snapshotsCreated is the number of snapshots the
\* cycle brought to COMPLETED, processedEmails is at most snapshotsCreated, and
\* processedEmails plus skippedEmails is at most totalEmails.
C38_SummaryCounts ==
    \A p \in Cycles :
        Active(p) =>
            LET summary == proc[p].summary IN
            /\ summary.errors = Len(summary.errorDetails)
            /\ summary.snapshotsCreated = Cardinality(CompletedBy(p))
            /\ summary.processedEmails <= summary.snapshotsCreated
            /\ summary.processedEmails + summary.skippedEmails <= summary.totalEmails

\* a cycle returns a summary with skipped mail, two snapshots of one mail item
\* of which one record was written, and errors
C38_Witness ==
    \E p \in Cycles :
        LET summary == proc[p].summary IN
        /\ proc[p].pc = "return"
        /\ summary.skippedEmails >= 2
        /\ summary.snapshotsCreated >= 2
        /\ summary.processedEmails < summary.snapshotsCreated
        /\ summary.processedEmails >= 1
        /\ summary.errors >= 2

====
